---- MODULE Spec2Model ----
(***************************************************************************)
(* Model of the caching layer of the entity matching service:              *)
(*   - LRUCache (lib/services/cache/lru-cache.ts)                          *)
(*   - MatcherCache (lib/services/cache/matcher-cache.ts)                  *)
(*   - EntityMatcher / CachedEntityMatcher                                 *)
(* Strings are sequences of one-character strings, so that the empty       *)
(* string is <<>> and substring, prefix and formatting are computed.       *)
(***************************************************************************)
EXTENDS Integers, Sequences, FiniteSets, TLC

VARIABLES
    lru,        \* the LRUCache instance: cache map, accessOrder, metrics, lock, config
    now,        \* Date.now()
    ret,        \* the last completed public call on lru and what it returned
    fresh,      \* observation: the history so far is set calls on distinct keys
    nops,       \* number of completed calls (bounds the counters)
    cem,        \* the CachedEntityMatcher instance: config and MatcherCache
    db,         \* the caller's artist and venue lists, passed to every matching call
    mret,       \* the last completed call on cem and what it returned
    under,      \* observation: the MatchConfig each cached key was stored under
    tasks,      \* the concurrent callers of lru: each one's call and position in it
    timers,     \* the host's pending timers (setInterval, setTimeout), by owner
    destroyed,  \* observation: destroy() has returned on the object under test
    resolver,   \* the AliasResolver instance: config and customAliases
    rret        \* the last completed call on resolver and what it returned

-----------------------------------------------------------------------------
(* Bounds *)
MaxSize == 2        \* largest maxSize a cache is constructed with
MaxTime == 2        \* the clock runs 0..MaxTime
MaxOps  == 4        \* calls per behaviour
MaxCalls == 3       \* calls on the matcher per behaviour
MaxInvoked == 3     \* calls made by the concurrent callers per behaviour

(* expiresAt: null.  A non-null expiresAt is now + ttl with ttl > 0, hence > 0. *)
DefaultTTL == 1
NULL == -1

(* Optional values: <<>> is undefined, <<v>> is the value v. *)
Undefined == <<>>
Some(v) == <<v>>

Keys   == { <<>>, <<"a">>, <<"b">> }     \* '' is a valid key
Values == { "v1", "v2" }
TTLArgs == { Undefined, Some(0), Some(2), Some(-1) }   \* ttl?: number

-----------------------------------------------------------------------------
(* Map and Set primitives of the host language *)

\* Map.prototype.delete
MapDelete(m, k) == [x \in (DOMAIN m) \ {k} |-> m[x]]

\* Map.prototype.set
MapSet(m, k, e) == [x \in (DOMAIN m) \cup {k} |-> IF x = k THEN e ELSE m[x]]

\* Set.prototype.delete on the insertion-ordered Set
OrderDelete(s, k) == SelectSeq(s, LAMBDA x : x # k)

\* Set.prototype.add on the insertion-ordered Set: an element already present keeps its place
OrderAdd(s, k) == IF \E i \in 1..Len(s) : s[i] = k THEN s ELSE Append(s, k)

\* truthiness of a string: '' is falsy
Truthy(s) == s # <<>>

-----------------------------------------------------------------------------
(* LRUCache *)

\* constructor
NewLRUCache(maxSize, defaultTTL, cleanupInterval, enableMetrics) ==
    [ cache       |-> << >>,
      accessOrder |-> << >>,
      config      |-> [ maxSize |-> maxSize, defaultTTL |-> defaultTTL,
                        cleanupInterval |-> cleanupInterval,
                        enableMetrics |-> enableMetrics ],
      metrics     |-> [ hits |-> 0, misses |-> 0, evictions |-> 0, size |-> 0,
                        hitRate |-> <<0, 1>> ],
      cleanupTimer |-> cleanupInterval > 0,
      lock        |-> {} ]

\* size()
size(c) == Cardinality(DOMAIN c.cache)

\* mutant: an entry counts as expired already at its expiry time
isExpired_strict(entry, t) == entry.expiresAt # NULL /\ t >= entry.expiresAt

isExpired(entry, t) == entry.expiresAt # NULL /\ t > entry.expiresAt

updateSize(c) == [c EXCEPT !.metrics.size = Cardinality(DOMAIN c.cache)]

\* hitRate is kept as the fraction <<100 * hits, hits + misses>>, or <<0, 1>> for 0
updateHitRate(c) ==
    LET total == c.metrics.hits + c.metrics.misses
    IN  [c EXCEPT !.metrics.hitRate =
            IF total > 0 THEN <<c.metrics.hits * 100, total>> ELSE <<0, 1>>]

recordHit(c) ==
    IF c.config.enableMetrics
    THEN updateHitRate([c EXCEPT !.metrics.hits = @ + 1])
    ELSE c

\* mutant: a miss is counted as a hit
recordMiss_asHit(c) ==
    IF c.config.enableMetrics
    THEN updateHitRate([c EXCEPT !.metrics.hits = @ + 1])
    ELSE c

recordMiss(c) ==
    IF c.config.enableMetrics
    THEN updateHitRate([c EXCEPT !.metrics.misses = @ + 1])
    ELSE c

\* evictLRU: the first key of accessOrder, skipped when it is undefined or falsy
evictLRU(c) ==
    IF c.accessOrder = << >>
    THEN c
    ELSE LET lruKey == Head(c.accessOrder)
         IN  IF Truthy(lruKey)
             THEN updateSize([c EXCEPT !.cache = MapDelete(@, lruKey),
                                       !.accessOrder = OrderDelete(@, lruKey),
                                       !.metrics.evictions = @ + 1])
             ELSE c

\* get(key) at time t; the spin on lock ends at once because lock is empty here
get(c, key, t) ==
    IF key \notin DOMAIN c.cache
    THEN [c |-> recordMiss(c), result |-> Undefined]
    ELSE IF isExpired(c.cache[key], t)
    THEN [c |-> recordMiss(updateSize([c EXCEPT !.cache = MapDelete(@, key),
                                                !.accessOrder = OrderDelete(@, key)])),
          result |-> Undefined]
    ELSE [c |-> recordHit([c EXCEPT
                    !.accessOrder = OrderAdd(OrderDelete(@, key), key),
                    !.cache[key].accessCount = @ + 1]),
          result |-> Some(c.cache[key].value)]

\* mutant: the ttl argument is ignored
effectiveTTL_default(c, ttl) == c.config.defaultTTL

\* ttl ?? this.config.defaultTTL
effectiveTTL(c, ttl) == IF ttl = Undefined THEN c.config.defaultTTL ELSE ttl[1]

newEntry(c, value, ttl, t) ==
    [ value |-> value,
      expiresAt |-> IF effectiveTTL(c, ttl) > 0 THEN t + effectiveTTL(c, ttl) ELSE NULL,
      accessCount |-> 1 ]

\* mutant: a key already present is stored as if it were new
set_asNew(c, key, value, ttl, t) ==
    updateSize([(IF size(c) >= c.config.maxSize THEN evictLRU(c) ELSE c) EXCEPT
                    !.cache = MapSet(@, key, newEntry(c, value, ttl, t)),
                    !.accessOrder = OrderAdd(@, key)])

\* set(key, value, ttl?) at time t; lock.add(key) ... finally lock.delete(key)
set(c, key, value, ttl, t) ==
    LET entry  == newEntry(c, value, ttl, t)
        locked == [c EXCEPT !.lock = @ \cup {key}]
        done   ==
            IF key \in DOMAIN locked.cache
            THEN [locked EXCEPT !.cache = MapSet(@, key, entry),
                                !.accessOrder = OrderAdd(OrderDelete(@, key), key)]
            ELSE LET room == IF size(locked) >= locked.config.maxSize
                             THEN evictLRU(locked) ELSE locked
                 IN  updateSize([room EXCEPT !.cache = MapSet(@, key, entry),
                                             !.accessOrder = OrderAdd(@, key)])
    IN  [done EXCEPT !.lock = @ \ {key}]

\* mutant: has() reports an expired entry absent but leaves it in the cache
has_noevict(c, key, t) ==
    IF key \notin DOMAIN c.cache
    THEN [c |-> c, result |-> FALSE]
    ELSE [c |-> c, result |-> ~ isExpired(c.cache[key], t)]

\* has(key) at time t
has(c, key, t) ==
    IF key \notin DOMAIN c.cache
    THEN [c |-> c, result |-> FALSE]
    ELSE IF isExpired(c.cache[key], t)
    THEN [c |-> updateSize([c EXCEPT !.cache = MapDelete(@, key),
                                     !.accessOrder = OrderDelete(@, key)]),
          result |-> FALSE]
    ELSE [c |-> c, result |-> TRUE]

\* mutant: delete leaves the key in the recency order
delete_keepOrder(c, key) ==
    [c |-> IF key \in DOMAIN c.cache
           THEN updateSize([c EXCEPT !.cache = MapDelete(@, key)])
           ELSE c,
     result |-> key \in DOMAIN c.cache]

\* delete(key)
delete(c, key) ==
    LET deleted == key \in DOMAIN c.cache
        locked  == [c EXCEPT !.lock = @ \cup {key}]
        done    == IF deleted
                   THEN updateSize([locked EXCEPT !.cache = MapDelete(@, key),
                                                  !.accessOrder = OrderDelete(@, key)])
                   ELSE locked
    IN  [c |-> [done EXCEPT !.lock = @ \ {key}], result |-> deleted]

resetMetrics(c) ==
    [c EXCEPT !.metrics = [ hits |-> 0, misses |-> 0, evictions |-> 0,
                            size |-> Cardinality(DOMAIN c.cache),
                            hitRate |-> <<0, 1>> ]]

\* clear()
clear(c) == resetMetrics([c EXCEPT !.cache = << >>, !.accessOrder = << >>])

\* keys()
keys(c) == DOMAIN c.cache

\* mutant: the loop stops after the first expired entry
cleanup_one(c, t) ==
    IF \E k \in DOMAIN c.cache : isExpired(c.cache[k], t)
    THEN [c |-> updateSize([c EXCEPT
                    !.cache = MapDelete(@, CHOOSE k \in DOMAIN c.cache :
                                                isExpired(c.cache[k], t)),
                    !.accessOrder = OrderDelete(@, CHOOSE k \in DOMAIN c.cache :
                                                isExpired(c.cache[k], t))]),
          result |-> 1]
    ELSE [c |-> c, result |-> 0]

\* cleanup() at time t
cleanup(c, t) ==
    LET expired == { k \in DOMAIN c.cache : isExpired(c.cache[k], t) }
        swept   == [c EXCEPT !.cache = [k \in (DOMAIN c.cache) \ expired |-> c.cache[k]],
                             !.accessOrder = SelectSeq(@, LAMBDA k : k \notin expired)]
    IN  [c |-> IF Cardinality(expired) > 0 THEN updateSize(swept) ELSE swept,
         result |-> Cardinality(expired)]

-----------------------------------------------------------------------------
(* Strings: a string is a sequence of one-character strings *)

Max(a, b) == IF a >= b THEN a ELSE b
Min(a, b) == IF a <= b THEN a ELSE b

\* the upper-case letters that occur in the model and their lower-case forms
Upper == [A |-> "a", B |-> "b", S |-> "s", T |-> "t", X |-> "x", Y |-> "y"]

\* String.prototype.toLowerCase
toLowerCase(str) ==
    [i \in 1..Len(str) |-> IF str[i] \in DOMAIN Upper THEN Upper[str[i]] ELSE str[i]]

\* \s of a regular expression
IsSpace(ch) == ch = " "

RECURSIVE trimStart(_)
trimStart(str) ==
    IF str # << >> /\ IsSpace(Head(str)) THEN trimStart(Tail(str)) ELSE str

RECURSIVE trimEnd(_)
trimEnd(str) ==
    IF str # << >> /\ IsSpace(str[Len(str)])
    THEN trimEnd(SubSeq(str, 1, Len(str) - 1)) ELSE str

\* String.prototype.trim
trim(str) == trimEnd(trimStart(str))

\* String.prototype.startsWith at position i (1-based)
MatchesAt(str, i, sub) ==
    /\ i + Len(sub) - 1 <= Len(str)
    /\ \A j \in 1..Len(sub) : str[i + j - 1] = sub[j]

\* String.prototype.includes
includes(str, sub) == \E i \in 1..(Len(str) + 1) : MatchesAt(str, i, sub)

\* replace(/\s+/g, ' '): every run of white space becomes one space
RECURSIVE collapseSpaces(_)
collapseSpaces(str) ==
    IF str = << >> THEN << >>
    ELSE IF IsSpace(Head(str))
    THEN <<" ">> \o collapseSpaces(trimStart(str))
    ELSE <<Head(str)>> \o collapseSpaces(Tail(str))

\* the class [.,;:!?'"()-]
Punctuation == {".", ",", ";", ":", "!", "?", "'", "\"", "(", ")", "-"}

\* replace(/[.,;:!?'"()-]/g, '')
stripPunctuation(str) == SelectSeq(str, LAMBDA ch : ch \notin Punctuation)

\* the alternatives of (the|a|an)
ArticleWords == { <<"t", "h", "e">>, <<"a">>, <<"a", "n">> }

\* replace(/^(the|a|an)\s+/i, ''): a leading article and the white space after it
stripLeadingArticle(str) ==
    LET hits == { w \in ArticleWords :
                    /\ MatchesAt(toLowerCase(str), 1, w)
                    /\ Len(str) > Len(w)
                    /\ IsSpace(str[Len(w) + 1]) }
    IN  IF hits = {} THEN str
        ELSE LET w == CHOOSE x \in hits : TRUE
             IN  trimStart(SubSeq(str, Len(w) + 1, Len(str)))

\* replace(/\s+(the|a|an)$/i, ''): a trailing article and the white space before it
stripTrailingArticle(str) ==
    LET hits == { w \in ArticleWords :
                    /\ Len(str) > Len(w)
                    /\ MatchesAt(toLowerCase(str), Len(str) - Len(w) + 1, w)
                    /\ IsSpace(str[Len(str) - Len(w)]) }
    IN  IF hits = {} THEN str
        ELSE LET w == CHOOSE x \in hits : TRUE
             IN  trimEnd(SubSeq(str, 1, Len(str) - Len(w)))

\* normalizeString of matchers/levenshtein
normalizeString(str) ==
    trim(stripTrailingArticle(stripLeadingArticle(
        stripPunctuation(collapseSpaces(trim(toLowerCase(str)))))))

-----------------------------------------------------------------------------
(* Similarity *)

\* one row of the edit distance matrix: row i from row i - 1 and the character ch
RECURSIVE matrixRow(_, _, _, _)
matrixRow(above, ch, str2, row) ==
    LET j == Len(row)     \* row holds columns 0 .. j - 1
    IN  IF j = Len(str2) + 1 THEN row
        ELSE matrixRow(above, ch, str2,
                Append(row,
                    IF ch = str2[j]
                    THEN above[j]
                    ELSE Min(above[j + 1] + 1, Min(row[j] + 1, above[j] + 1))))

RECURSIVE matrixFrom(_, _, _, _)
matrixFrom(above, i, str1, str2) ==
    IF i > Len(str1) THEN above
    ELSE matrixFrom(matrixRow(above, str1[i], str2, <<i>>), i + 1, str1, str2)

\* Levenshtein distance: unit cost insertion, deletion and substitution
levenshteinDistance(str1, str2) ==
    matrixFrom([j \in 1..(Len(str2) + 1) |-> j - 1], 1, str1, str2)[Len(str2) + 1]

\* Math.round of the non-negative fraction num / den
RoundDiv(num, den) == (2 * num + den) \div (2 * den)

\* the percentage of calculateSimilarity for the normalized strings n1 and n2
similarityOf(n1, n2) ==
    IF n1 = n2 THEN 100
    ELSE Max(0, RoundDiv((Max(Len(n1), Len(n2)) - levenshteinDistance(n1, n2)) * 100,
                         Max(Len(n1), Len(n2))))

\* calculateSimilarity of matchers/levenshtein
calculateSimilarity(str1, str2) ==
    IF str1 = << >> \/ str2 = << >> THEN 0
    ELSE IF str1 = str2 THEN 100
    ELSE similarityOf(normalizeString(str1), normalizeString(str2))

\* isExactMatch of matchers/levenshtein
isExactMatch(str1, str2) ==
    IF str1 = << >> \/ str2 = << >> THEN FALSE
    ELSE normalizeString(str1) = normalizeString(str2)

-----------------------------------------------------------------------------
(* Confidence scoring.  A weight is held in hundredths: 80 is 0.8. *)

\* the alias loop of calculateConfidence: 100 at the first exact alias
RECURSIVE bestAliasScore(_, _, _)
bestAliasScore(query, aliases, best) ==
    IF aliases = << >> THEN best
    ELSE IF isExactMatch(query, Head(aliases)) THEN 100
    ELSE bestAliasScore(query, Tail(aliases),
                        Max(best, calculateSimilarity(query, Head(aliases))))

\* mutant: the largest of the three weighted sub-scores
calculateWeightedScore_max(breakdown, config) ==
    Min(100, Max(0, Max(RoundDiv(breakdown.exactMatch * config.exactMatchWeight, 100),
                        Max(RoundDiv(breakdown.aliasMatch * config.aliasMatchWeight, 100),
                            RoundDiv(breakdown.fuzzyMatch * config.fuzzyMatchWeight, 100)))))

calculateWeightedScore(breakdown, config) ==
    LET maxScore == IF breakdown.exactMatch > 0 THEN breakdown.exactMatch
                    ELSE IF breakdown.aliasMatch > 0 THEN breakdown.aliasMatch
                    ELSE breakdown.fuzzyMatch
        appliedWeight == IF breakdown.exactMatch > 0 THEN config.exactMatchWeight
                         ELSE IF breakdown.aliasMatch > 0 THEN config.aliasMatchWeight
                         ELSE config.fuzzyMatchWeight
    IN  Min(100, Max(0, RoundDiv(maxScore * appliedWeight, 100)))

\* breakdown.weighted = calculateWeightedScore(breakdown, config)
withWeighted(breakdown, config) ==
    [breakdown EXCEPT !.weighted = calculateWeightedScore(breakdown, config)]

calculateConfidence(query, targetName, aliases, config) ==
    IF query = << >> \/ targetName = << >>
    THEN [exactMatch |-> 0, fuzzyMatch |-> 0, aliasMatch |-> 0, weighted |-> 0]
    ELSE withWeighted(
            [ exactMatch |-> IF isExactMatch(query, targetName) THEN 100 ELSE 0,
              fuzzyMatch |-> calculateSimilarity(query, targetName),
              aliasMatch |-> bestAliasScore(query, aliases, 0),
              weighted   |-> 0 ],
            config)

\* mutant: a score equal to the threshold does not meet it
meetsConfidenceThreshold_strict(breakdown, config) ==
    breakdown.weighted > config.minConfidence

meetsConfidenceThreshold(breakdown, config) ==
    breakdown.weighted >= config.minConfidence

\* Array.prototype.sort with (a, b) => b.weighted - a.weighted: a stable insertion
\* mutant: an item is placed before the items of its weight
RECURSIVE insertByWeight_before(_, _)
insertByWeight_before(sorted, item) ==
    IF sorted = << >> THEN <<item>>
    ELSE IF Head(sorted).confidence.weighted > item.confidence.weighted
    THEN <<Head(sorted)>> \o insertByWeight_before(Tail(sorted), item)
    ELSE <<item>> \o sorted

RECURSIVE insertByWeight(_, _)
insertByWeight(sorted, item) ==
    IF sorted = << >> THEN <<item>>
    ELSE IF Head(sorted).confidence.weighted >= item.confidence.weighted
    THEN <<Head(sorted)>> \o insertByWeight(Tail(sorted), item)
    ELSE <<item>> \o sorted

RECURSIVE sortByWeight(_, _)
sortByWeight(items, sorted) ==
    IF items = << >> THEN sorted
    ELSE sortByWeight(Tail(items), insertByWeight(sorted, Head(items)))

\* Array.prototype.slice(0, n)
slice(items, n) ==
    SubSeq(items, 1, IF n < 0 THEN Max(Len(items) + n, 0) ELSE Min(n, Len(items)))

\* mutant: the filter and the slice without the sort
rank_nosort(scored, config) ==
    slice(SelectSeq(scored,
                LAMBDA item : meetsConfidenceThreshold(item.confidence, config)),
          config.maxResults)

\* the filter, sort and slice of scoreEntities
rank(scored, config) ==
    slice(sortByWeight(SelectSeq(scored,
                LAMBDA item : meetsConfidenceThreshold(item.confidence, config)), << >>),
          config.maxResults)

\* scoreEntities: map, filter, sort, slice
scoreEntities(query, entities, config) ==
    IF query = << >> \/ entities = << >> THEN << >>
    ELSE rank([i \in 1..Len(entities) |->
                 [ entity |-> entities[i],
                   confidence |-> calculateConfidence(query, entities[i].name,
                                       entities[i].aliases, config) ]],
              config)

-----------------------------------------------------------------------------
(* EntityMatcher *)

DEFAULT_MATCH_CONFIG ==
    [ minSimilarity |-> 60, minConfidence |-> 70, maxResults |-> 10,
      exactMatchWeight |-> 100, fuzzyMatchWeight |-> 80, aliasMatchWeight |-> 90 ]

\* { ...config, ...partial }
Merge(config, partial) ==
    [f \in DOMAIN config |-> IF f \in DOMAIN partial THEN partial[f] ELSE config[f]]

\* !query?.trim(): null and undefined are held as the empty string
Blank(query) == trim(query) = << >>

\* the ArtistMatch of a scored artist
toArtistMatch(item) ==
    [ id |-> item.entity.id, name |-> item.entity.name,
      confidence |-> item.confidence.weighted, breakdown |-> item.confidence ]

artistMatches(scored) == [i \in 1..Len(scored) |-> toArtistMatch(scored[i])]

\* mutant: the query is scored as given, without the guard and the trim
matchArtists_noGuard(config, query, artists) ==
    artistMatches(scoreEntities(query, artists, config))

\* EntityMatcher.matchArtists
matchArtists(config, query, artists) ==
    IF Blank(query) \/ artists = << >> THEN << >>
    ELSE artistMatches(scoreEntities(trim(query), artists, config))

\* the VenueMatch of a scored venue
toVenueMatch(item) ==
    [ id |-> item.entity.id, name |-> item.entity.name, city |-> item.entity.city,
      confidence |-> item.confidence.weighted, breakdown |-> item.confidence ]

venueMatches(scored) == [i \in 1..Len(scored) |-> toVenueMatch(scored[i])]

\* the venues whose city contains the city filter, all venues without a filter
filterByCity(venues, cityFilter) ==
    IF ~ Blank(cityFilter)
    THEN SelectSeq(venues, LAMBDA venue :
            includes(toLowerCase(venue.city), toLowerCase(cityFilter)))
    ELSE venues

\* EntityMatcher.matchVenues
matchVenues(config, query, venues, cityFilter) ==
    IF Blank(query) \/ venues = << >> THEN << >>
    ELSE venueMatches(scoreEntities(trim(query), filterByCity(venues, cityFilter), config))

\* matches.length > 0 ? matches[0] : null, the result held as a list of at most one
first(matches) == IF Len(matches) > 0 THEN <<matches[1]>> ELSE << >>

\* EntityMatcher.findBestArtist
findBestArtist(config, query, artists) == first(matchArtists(config, query, artists))

\* EntityMatcher.findBestVenue
findBestVenue(config, query, venues, cityFilter) ==
    first(matchVenues(config, query, venues, cityFilter))

\* EntityMatcher.batchMatch: the record of results keyed by the query as given
batchMatch(config, queries, artists, venues) ==
    [q \in { queries[i] : i \in { j \in 1..Len(queries) : ~ Blank(queries[j]) } } |->
        [ artists |-> matchArtists(config, q, artists),
          venues  |-> matchVenues(config, q, venues, << >>) ]]

\* EntityMatcher.updateConfig
updateConfig(config, partial) == Merge(config, partial)

-----------------------------------------------------------------------------
(* MatcherCache: cache keys *)

DigitChars == <<"0", "1", "2", "3", "4", "5", "6", "7", "8", "9">>

\* String(n) of a non-negative integer
RECURSIVE formatInt(_)
formatInt(n) ==
    IF n < 10 THEN <<DigitChars[n + 1]>>
    ELSE formatInt(n \div 10) \o <<DigitChars[(n % 10) + 1]>>

\* String(w) of a weight held in hundredths: 100 is "1", 80 is "0.8", 95 is "0.95"
formatWeight(w) ==
    formatInt(w \div 100) \o
        ( IF w % 100 = 0 THEN << >>
          ELSE IF w % 10 = 0 THEN <<".", DigitChars[((w % 100) \div 10) + 1]>>
          ELSE <<".", DigitChars[((w % 100) \div 10) + 1], DigitChars[(w % 10) + 1]>> )

\* the template string of hashConfig
configString(config) ==
    formatInt(config.minSimilarity) \o <<":">> \o formatInt(config.minConfidence)
        \o <<":">> \o formatInt(config.maxResults)
        \o <<":">> \o formatWeight(config.exactMatchWeight)
        \o <<":">> \o formatWeight(config.fuzzyMatchWeight)
        \o <<":">> \o formatWeight(config.aliasMatchWeight)

\* Buffer.from(str): the byte of each character of a config string
CharCode(ch) ==
    CASE ch = "." -> 46
      [] ch = ":" -> 58
      [] OTHER    -> 47 + (CHOOSE d \in 1..10 : DigitChars[d] = ch)

Base64Alphabet ==
    << "A", "B", "C", "D", "E", "F", "G", "H", "I", "J", "K", "L", "M", "N", "O", "P",
       "Q", "R", "S", "T", "U", "V", "W", "X", "Y", "Z", "a", "b", "c", "d", "e", "f",
       "g", "h", "i", "j", "k", "l", "m", "n", "o", "p", "q", "r", "s", "t", "u", "v",
       "w", "x", "y", "z", "0", "1", "2", "3", "4", "5", "6", "7", "8", "9", "+", "/" >>

Sextet(n) == Base64Alphabet[(n % 64) + 1]

\* toString('base64') of a byte sequence
RECURSIVE base64(_)
base64(bytes) ==
    IF bytes = << >> THEN << >>
    ELSE IF Len(bytes) = 1
    THEN LET n == bytes[1] * 16
         IN  <<Sextet(n \div 64), Sextet(n), "=", "=">>
    ELSE IF Len(bytes) = 2
    THEN LET n == (bytes[1] * 256 + bytes[2]) * 4
         IN  <<Sextet(n \div 4096), Sextet(n \div 64), Sextet(n), "=">>
    ELSE LET n == bytes[1] * 65536 + bytes[2] * 256 + bytes[3]
         IN  <<Sextet(n \div 262144), Sextet(n \div 4096), Sextet(n \div 64), Sextet(n)>>
                \o base64(SubSeq(bytes, 4, Len(bytes)))

\* Buffer.from(str).toString('base64')
encode(str) == base64([i \in 1..Len(str) |-> CharCode(str[i])])

\* hashConfig: the first 8 characters of the base64 form of the config string
hashConfig(config) == slice(encode(configString(config)), 8)

generateArtistCacheKey(query, config) ==
    <<"a", "r", "t", "i", "s", "t", ":">> \o trim(toLowerCase(query))
        \o <<":">> \o hashConfig(config)

generateVenueCacheKey(query, config, cityFilter) ==
    <<"v", "e", "n", "u", "e", ":">> \o trim(toLowerCase(query))
        \o (IF cityFilter # << >> THEN <<":">> \o trim(toLowerCase(cityFilter)) ELSE << >>)
        \o <<":">> \o hashConfig(config)

-----------------------------------------------------------------------------
(* MatcherCache: three LRUCache partitions.  The response-time metrics are      *)
(* measurements of performance.now() and are not part of the state.             *)

\* constructor: 50% / 40% / 10% of maxSize, Math.floor
NewMatcherCache(config) ==
    [ config      |-> config,
      artistCache |-> NewLRUCache((config.maxSize * 5) \div 10, config.artistCacheTTL,
                                  config.cleanupInterval, config.enableMetrics),
      venueCache  |-> NewLRUCache((config.maxSize * 4) \div 10, config.venueCacheTTL,
                                  config.cleanupInterval, config.enableMetrics),
      aliasCache  |-> NewLRUCache(config.maxSize \div 10, config.aliasCacheTTL,
                                  config.cleanupInterval, config.enableMetrics) ]

\* the cache after a lookup g of a partition and what the lookup returned
artistLookup(mc, g) == [mc |-> [mc EXCEPT !.artistCache = g.c], result |-> g.result]
venueLookup(mc, g) == [mc |-> [mc EXCEPT !.venueCache = g.c], result |-> g.result]

getArtistMatches(mc, query, matchConfig, t) ==
    artistLookup(mc, get(mc.artistCache, generateArtistCacheKey(query, matchConfig), t))

\* mutant: the result is not stored
setArtistMatches_skip(mc, query, matchConfig, matches, t) == mc

setArtistMatches(mc, query, matchConfig, matches, t) ==
    [mc EXCEPT !.artistCache =
        set(@, generateArtistCacheKey(query, matchConfig), matches, Undefined, t)]

getVenueMatches(mc, query, matchConfig, cityFilter, t) ==
    venueLookup(mc, get(mc.venueCache,
                        generateVenueCacheKey(query, matchConfig, cityFilter), t))

setVenueMatches(mc, query, matchConfig, matches, cityFilter, t) ==
    [mc EXCEPT !.venueCache =
        set(@, generateVenueCacheKey(query, matchConfig, cityFilter), matches,
            Undefined, t)]

\* MatcherCache.clear
clearMatcherCache(mc) ==
    [mc EXCEPT !.artistCache = clear(@), !.venueCache = clear(@), !.aliasCache = clear(@)]

-----------------------------------------------------------------------------
(* CachedEntityMatcher: the EntityMatcher config and a MatcherCache.            *)
(* A call is threaded through a context x:                                      *)
(*   x.m        the matcher (config, cache)                                     *)
(*   x.under    observation: the MatchConfig each stored key was written under  *)
(*   x.invoked  observation: calls of the underlying EntityMatcher so far       *)
(*   x.from     observation: the configs of the entries returned from the cache *)

NewCachedEntityMatcher(matchConfig, cacheConfig) ==
    [ config |-> Merge(DEFAULT_MATCH_CONFIG, matchConfig),
      cache  |-> NewMatcherCache(cacheConfig) ]

Ctx(m, u) == [m |-> m, under |-> u, invoked |-> 0, from |-> {}]

\* matchArtists on a miss: the computed result is stored under key and returned
artistMiss(x, query, t, key, mc, result) ==
    [ x |-> [x EXCEPT !.m.cache = setArtistMatches(mc, query, x.m.config, result, t),
                      !.under.artist = MapSet(@, key, x.m.config),
                      !.invoked = @ + 1],
      result |-> result ]

\* matchArtists after the lookup g of key
artistCacheFirst(x, query, artists, t, key, g) ==
    IF g.result # Undefined
    THEN [ x |-> [x EXCEPT !.m.cache = g.mc, !.from = @ \cup {x.under.artist[key]}],
           result |-> g.result[1] ]
    ELSE artistMiss(x, query, t, key, g.mc, matchArtists(x.m.config, query, artists))

\* CachedEntityMatcher.matchArtists
cachedMatchArtists(x, query, artists, t) ==
    IF Blank(query) \/ artists = << >> THEN [x |-> x, result |-> << >>]
    ELSE artistCacheFirst(x, query, artists, t,
                          generateArtistCacheKey(query, x.m.config),
                          getArtistMatches(x.m.cache, query, x.m.config, t))

\* matchVenues on a miss: the computed result is stored under key and returned
venueMiss(x, query, cityFilter, t, key, mc, result) ==
    [ x |-> [x EXCEPT !.m.cache = setVenueMatches(mc, query, x.m.config, result,
                                                  cityFilter, t),
                      !.under.venue = MapSet(@, key, x.m.config),
                      !.invoked = @ + 1],
      result |-> result ]

\* matchVenues after the lookup g of key
venueCacheFirst(x, query, venues, cityFilter, t, key, g) ==
    IF g.result # Undefined
    THEN [ x |-> [x EXCEPT !.m.cache = g.mc, !.from = @ \cup {x.under.venue[key]}],
           result |-> g.result[1] ]
    ELSE venueMiss(x, query, cityFilter, t, key, g.mc,
                   matchVenues(x.m.config, query, venues, cityFilter))

\* CachedEntityMatcher.matchVenues
cachedMatchVenues(x, query, venues, cityFilter, t) ==
    IF Blank(query) \/ venues = << >> THEN [x |-> x, result |-> << >>]
    ELSE venueCacheFirst(x, query, venues, cityFilter, t,
                         generateVenueCacheKey(query, x.m.config, cityFilter),
                         getVenueMatches(x.m.cache, query, x.m.config, cityFilter, t))

\* the first match of the result of a call r, or none
best(r) == [x |-> r.x, result |-> first(r.result)]

\* CachedEntityMatcher.findBestArtist
cachedFindBestArtist(x, query, artists, t) ==
    best(cachedMatchArtists(x, query, artists, t))

\* CachedEntityMatcher.findBestVenue
cachedFindBestVenue(x, query, venues, cityFilter, t) ==
    best(cachedMatchVenues(x, query, venues, cityFilter, t))

\* batchMatch, one query: the results are assigned and those not found are stored
batchStore(query, t, akey, vkey, ga, gv, ra, rv) ==
    [ x |-> [rv.x EXCEPT
               !.m.cache =
                    IF gv.result = Undefined
                    THEN setVenueMatches(
                            IF ga.result = Undefined
                            THEN setArtistMatches(@, query, rv.x.m.config, ra.result, t)
                            ELSE @,
                            query, rv.x.m.config, rv.result, << >>, t)
                    ELSE IF ga.result = Undefined
                    THEN setArtistMatches(@, query, rv.x.m.config, ra.result, t)
                    ELSE @,
               !.under.artist = IF ga.result = Undefined
                                THEN MapSet(@, akey, rv.x.m.config) ELSE @,
               !.under.venue = IF gv.result = Undefined
                               THEN MapSet(@, vkey, rv.x.m.config) ELSE @],
      result |-> [artists |-> ra.result, venues |-> rv.result] ]

\* batchMatch, one query: cachedVenues ?? this.matchVenues(query, venues)
batchVenues(query, venues, t, akey, vkey, ga, gv, ra) ==
    batchStore(query, t, akey, vkey, ga, gv, ra,
               IF gv.result # Undefined THEN [x |-> ra.x, result |-> gv.result[1]]
               ELSE cachedMatchVenues(ra.x, query, venues, << >>, t))

\* batchMatch, one query: cachedArtists ?? this.matchArtists(query, artists)
batchArtists(x, query, artists, venues, t, akey, vkey, ga, gv) ==
    batchVenues(query, venues, t, akey, vkey, ga, gv,
                IF ga.result # Undefined THEN [x |-> x, result |-> ga.result[1]]
                ELSE cachedMatchArtists(x, query, artists, t))

\* the matcher after the two lookups of batchMatch, with the configs of what they found
afterLookups(x, akey, vkey, ga, gv) ==
    [x EXCEPT !.m.cache = gv.mc,
              !.from = @ \cup (IF ga.result # Undefined
                               THEN {x.under.artist[akey]} ELSE {})
                         \cup (IF gv.result # Undefined
                               THEN {x.under.venue[vkey]} ELSE {})]

\* batchMatch, one query, after the lookups ga and gv of both partitions
batchLookedUp(x, query, artists, venues, t, akey, vkey, ga, gv) ==
    IF ga.result # Undefined /\ gv.result # Undefined
    THEN [ x |-> afterLookups(x, akey, vkey, ga, gv),
           result |-> [artists |-> ga.result[1], venues |-> gv.result[1]] ]
    ELSE batchArtists(afterLookups(x, akey, vkey, ga, gv), query, artists, venues, t,
                      akey, vkey, ga, gv)

\* batchMatch, one query, after the lookup ga of the artist partition
batchVenueLookup(x, query, artists, venues, t, ga) ==
    batchLookedUp(x, query, artists, venues, t,
                  generateArtistCacheKey(query, x.m.config),
                  generateVenueCacheKey(query, x.m.config, << >>),
                  ga, getVenueMatches(ga.mc, query, x.m.config, << >>, t))

\* the body of the loop of CachedEntityMatcher.batchMatch for one query
batchMatchQuery(x, query, artists, venues, t) ==
    batchVenueLookup(x, query, artists, venues, t,
                     getArtistMatches(x.m.cache, query, x.m.config, t))

\* the rest of the loop after the query i gave r
RECURSIVE batchMatchFrom(_, _, _, _, _, _, _)
batchNext(r, results, queries, i, artists, venues, t) ==
    batchMatchFrom(r.x, MapSet(results, queries[i], r.result), queries, i + 1,
                   artists, venues, t)

\* CachedEntityMatcher.batchMatch from the i-th query on, results so far in results
batchMatchFrom(x, results, queries, i, artists, venues, t) ==
    IF i > Len(queries) THEN [x |-> x, result |-> results]
    ELSE IF Blank(queries[i])
    THEN batchMatchFrom(x, results, queries, i + 1, artists, venues, t)
    ELSE batchNext(batchMatchQuery(x, queries[i], artists, venues, t),
                   results, queries, i, artists, venues, t)

\* CachedEntityMatcher.batchMatch
cachedBatchMatch(x, queries, artists, venues, t) ==
    batchMatchFrom(x, << >>, queries, 1, artists, venues, t)

\* CachedEntityMatcher.clearCache
clearCache(m) == [m EXCEPT !.cache = clearMatcherCache(@)]

-----------------------------------------------------------------------------
(* The data of the matcher: candidate lists, queries, filters, configs *)

Artists ==
    << [id |-> <<"1">>, name |-> <<"a", "b">>, aliases |-> << >>],
       [id |-> <<"2">>, name |-> <<"a", "b", "c">>, aliases |-> << <<"a", "b">> >>] >>

Venues ==
    << [id |-> <<"1">>, name |-> <<"a", "b">>, city |-> <<"x">>, aliases |-> << >>],
       [id |-> <<"2">>, name |-> <<"a", "b">>, city |-> <<"y">>, aliases |-> << >>] >>

\* 'Ab ' has the cache key of 'ab', 'b' matches nothing, ' ' is blank
Queries == { <<"A", "b", " ">>, <<"b">>, <<" ">> }

\* cityFilter?: string
CityFilters == { << >>, <<"Y">> }

\* the lists the caller passes: its data, or nothing
ListChoices == { [artists |-> Artists, venues |-> Venues],
                 [artists |-> << >>, venues |-> << >>] }

\* arguments of updateConfig
Partials ==
    { [maxResults |-> 1], [minConfidence |-> 95] }

\* queries of batchMatch
Batches == { <<<<"A", "b", " ">>>>, <<<<"b">>, <<" ">>, <<"A", "b", " ">>>> }

\* the cacheConfig the matcher is constructed with: no sweep timer, no warming
cacheConfig ==
    [ maxSize |-> 4, artistCacheTTL |-> 2, venueCacheTTL |-> 1, aliasCacheTTL |-> 3,
      cleanupInterval |-> 0, enableMetrics |-> TRUE, enableWarming |-> FALSE ]

\* mret: the call, its arguments, the config at the time of the call, what it
\* returned and what it did on the way
NoMatch ==
    [ op |-> "none", query |-> << >>, city |-> << >>, queries |-> << >>,
      config |-> DEFAULT_MATCH_CONFIG,
      result |-> << >>, invoked |-> 0, from |-> {} ]

-----------------------------------------------------------------------------
(* The LRUCache under a sequence of calls; time passes between calls. *)

\* ret: the call, its arguments and what it returned
NoCall == [op |-> "none", key |-> <<>>, value |-> Undefined, ttl |-> Undefined,
           flag |-> FALSE, count |-> 0]

Call(op, key, value, ttl, flag, count) ==
    [op |-> op, key |-> key, value |-> value, ttl |-> ttl, flag |-> flag, count |-> count]

\* fresh: the keys set so far, in order, while the history is nothing but set
\* calls on pairwise distinct keys
NotFresh == [ok |-> FALSE, keys |-> << >>]

\* a matcher that is constructed and never called
IdleMatcher ==
    /\ cem = NewCachedEntityMatcher(<< >>, cacheConfig)
    /\ db = [artists |-> Artists, venues |-> Venues, changed |-> FALSE]
    /\ mret = NoMatch
    /\ under = [artist |-> << >>, venue |-> << >>]

\* no matcher is constructed
NoMatcher ==
    /\ cem = << >>
    /\ db = << >>
    /\ mret = << >>
    /\ under = << >>

InitLRU ==
    /\ \E m \in 1..MaxSize :
            lru = NewLRUCache(m, DefaultTTL, 0, TRUE)
    /\ now = 0
    /\ ret = NoCall
    /\ fresh = [ok |-> TRUE, keys |-> << >>]
    /\ nops = 0

matcherVars == <<cem, db, mret, under>>

\* a caller that makes no call
Idle ==
    [ pc |-> "idle", op |-> "none", key |-> << >>, value |-> Undefined,
      ttl |-> Undefined, entry |-> Undefined, lruKey |-> Undefined,
      result |-> Undefined ]

Tasks == {1, 2}

NoTasks == tasks = [t \in Tasks |-> Idle]

\* no AliasResolver is constructed
NoResolver == resolver = << >> /\ rret = << >>

\* no timer is pending: every cache here is constructed with cleanupInterval 0
NoTimers == timers = << >> /\ destroyed = FALSE

Done(r) ==
    /\ nops < MaxOps
    /\ nops' = nops + 1
    /\ ret' = r
    /\ UNCHANGED <<matcherVars, tasks, resolver, rret, timers, destroyed>>

Set(key, value, ttl) ==
    /\ lru' = set(lru, key, value, ttl, now)
    /\ fresh' = IF fresh.ok /\ \A i \in 1..Len(fresh.keys) : fresh.keys[i] # key
                THEN [fresh EXCEPT !.keys = Append(@, key)]
                ELSE NotFresh
    /\ Done(Call("set", key, Some(value), ttl, FALSE, 0))
    /\ UNCHANGED now

Get(key) ==
    /\ lru' = get(lru, key, now).c
    /\ fresh' = NotFresh
    /\ Done(Call("get", key, get(lru, key, now).result, Undefined, FALSE, 0))
    /\ UNCHANGED now

Has(key) ==
    /\ lru' = has(lru, key, now).c
    /\ fresh' = NotFresh
    /\ Done(Call("has", key, Undefined, Undefined, has(lru, key, now).result, 0))
    /\ UNCHANGED now

Delete(key) ==
    /\ lru' = delete(lru, key).c
    /\ fresh' = NotFresh
    /\ Done(Call("delete", key, Undefined, Undefined, delete(lru, key).result, 0))
    /\ UNCHANGED now

Cleanup ==
    /\ lru' = cleanup(lru, now).c
    /\ fresh' = NotFresh
    /\ Done(Call("cleanup", <<>>, Undefined, Undefined, FALSE, cleanup(lru, now).result))
    /\ UNCHANGED now

Clear ==
    /\ lru' = clear(lru)
    /\ fresh' = NotFresh
    /\ Done(Call("clear", <<>>, Undefined, Undefined, FALSE, 0))
    /\ UNCHANGED now

Tick ==
    /\ now < MaxTime
    /\ now' = now + 1
    /\ UNCHANGED <<lru, ret, fresh, nops>>
    /\ UNCHANGED <<matcherVars, tasks, resolver, rret, timers, destroyed>>

vars == <<lru, now, ret, fresh, nops, cem, db, mret, under, tasks, resolver, rret, timers, destroyed>>

Init == InitLRU /\ NoMatcher /\ NoTasks /\ NoTimers /\ NoResolver

Next ==
    \/ \E k \in Keys, v \in Values, ttl \in TTLArgs : Set(k, v, ttl)
    \/ \E k \in Keys : Get(k)
    \/ \E k \in Keys : Has(k)
    \/ \E k \in Keys : Delete(k)
    \/ Cleanup
    \/ Clear
    \/ Tick

Spec == Init /\ [][Next]_vars

-----------------------------------------------------------------------------
(* Claims about the LRUCache *)

\* the step completes a call op on key
Completes(op, key) == nops' = nops + 1 /\ ret'.op = op /\ ret'.key = key

\* the TTL of the entry stored under key has not elapsed at the current time
Live(key) ==
    key \in DOMAIN lru.cache =>
        (lru.cache[key].expiresAt = NULL \/ now <= lru.cache[key].expiresAt)

\* C1: a get(k) issued right after set(k, v), before the TTL elapses, returns v
C1_GetAfterSet ==
    [][\A k \in Keys :
        (ret.op = "set" /\ ret.key = k /\ Completes("get", k) /\ Live(k))
            => ret'.value = ret.value]_vars

\* C1 witness: the second call is a get that returns v2, one tick after the set
C1_Witness ==
    /\ nops = 2 /\ now = 1
    /\ ret.op = "get" /\ ret.value = Some("v2")
    /\ lru.metrics.hits = 1

\* C2: after maxSize + 1 set calls on distinct keys of an empty cache, exactly one
\* entry has been evicted, size() is maxSize and the evicted key is the first one set
C2_OneEvictionOfTheOldest ==
    (fresh.ok /\ Len(fresh.keys) = lru.config.maxSize + 1) =>
        /\ lru.metrics.evictions = 1
        /\ size(lru) = lru.config.maxSize
        /\ Head(fresh.keys) \notin DOMAIN lru.cache
        /\ \A i \in 2..Len(fresh.keys) : fresh.keys[i] \in DOMAIN lru.cache

\* C3: 0 <= size() <= maxSize after any sequence of calls on any keys, '' included
C3_SizeWithinMaxSize ==
    0 <= size(lru) /\ size(lru) <= lru.config.maxSize

\* Without(s, k): the recency order s without key k
Without(s, k) == SelectSeq(s, LAMBDA x : x # k)

\* C4: a get(k) that hits makes k the most recently used key and keeps the order of
\* the others, so that the capacity eviction of the next call removes the least
\* recently used of the other keys and keeps k; a get that misses keeps the order
\* of the remaining keys
C4_GetHitMovesToMRU ==
    [][\A k \in Keys :
        /\ (Completes("get", k) /\ ret'.value # Undefined) =>
                /\ lru'.accessOrder # << >>
                /\ lru'.accessOrder[Len(lru'.accessOrder)] = k
                /\ Without(lru'.accessOrder, k) = Without(lru.accessOrder, k)
        /\ (Completes("get", k) /\ ret'.value = Undefined) =>
                lru'.accessOrder = Without(lru.accessOrder, k)
        /\ \A n \in Keys :
            ( /\ ret.op = "get" /\ ret.key = k /\ ret.value # Undefined
              /\ Completes("set", n) /\ n \notin DOMAIN lru.cache
              /\ size(lru) >= lru.config.maxSize
              /\ Without(lru.accessOrder, k) # << >> ) =>
                /\ k \in DOMAIN lru'.cache
                /\ Head(Without(lru.accessOrder, k)) \notin DOMAIN lru'.cache]_vars

\* C5: an entry stored at time T with effective TTL t > 0 expires at T + t; a get or
\* has at any later time reports it absent and removes it, and size() drops by one
C5_ExpiredIsAbsent ==
    [][\A k \in Keys :
        /\ (Completes("set", k) /\ effectiveTTL(lru, ret'.ttl) > 0) =>
                /\ k \in DOMAIN lru'.cache
                /\ lru'.cache[k].expiresAt = now + effectiveTTL(lru, ret'.ttl)
        /\ ( /\ k \in DOMAIN lru.cache
             /\ lru.cache[k].expiresAt # NULL
             /\ now > lru.cache[k].expiresAt ) =>
                /\ Completes("get", k) =>
                        /\ ret'.value = Undefined
                        /\ k \notin DOMAIN lru'.cache
                        /\ size(lru') = size(lru) - 1
                        /\ lru'.metrics.size = size(lru')
                /\ Completes("has", k) =>
                        /\ ret'.flag = FALSE
                        /\ k \notin DOMAIN lru'.cache
                        /\ size(lru') = size(lru) - 1
                        /\ lru'.metrics.size = size(lru')]_vars

\* C5 witness: a has() found an entry two ticks after it was stored with the
\* default TTL and removed it
C5_Witness ==
    /\ nops = 2 /\ now = 2
    /\ ret.op = "has" /\ ret.flag = FALSE
    /\ lru.cache = << >>
    /\ lru.metrics.size = 0
    /\ ~ fresh.ok

\* C25: set(k, v2) on a key already present replaces its value with v2 and makes k
\* the most recently used key, without evicting any entry, without changing
\* size() and without incrementing the eviction counter, also at capacity
C25_SetExistingKey ==
    [][\A k \in Keys :
        (Completes("set", k) /\ k \in DOMAIN lru.cache) =>
            /\ Some(lru'.cache[k].value) = ret'.value
            /\ lru'.accessOrder[Len(lru'.accessOrder)] = k
            /\ Without(lru'.accessOrder, k) = Without(lru.accessOrder, k)
            /\ DOMAIN lru'.cache = DOMAIN lru.cache
            /\ \A j \in DOMAIN lru.cache \ {k} : lru'.cache[j] = lru.cache[j]
            /\ size(lru') = size(lru)
            /\ lru'.metrics.size = lru.metrics.size
            /\ lru'.metrics.evictions = lru.metrics.evictions]_vars

\* C25 witness: the third call set v2 on a key of a full cache of two entries, the
\* other entry still holds v1 and nothing was evicted
C25_Witness ==
    /\ nops = 3
    /\ ret.op = "set" /\ ret.value = Some("v2")
    /\ fresh = NotFresh
    /\ lru.config.maxSize = 2 /\ size(lru) = 2
    /\ lru.metrics.evictions = 0
    /\ lru.accessOrder[2] = ret.key
    /\ lru.cache[ret.key].value = "v2"
    /\ lru.cache[lru.accessOrder[1]].value = "v1"

\* C26: the ttl argument of set overrides defaultTTL for that entry only, the
\* other entries keep their expiry, and an entry of effective TTL 0 (its expiresAt
\* is null) is never reported absent or removed at any later time
C26_PerEntryTTL ==
    [][\A k \in Keys :
        /\ Completes("set", k) =>
            /\ (ret'.ttl # Undefined /\ ret'.ttl[1] > 0) =>
                    lru'.cache[k].expiresAt = now + ret'.ttl[1]
            /\ (ret'.ttl = Undefined /\ lru.config.defaultTTL > 0) =>
                    lru'.cache[k].expiresAt = now + lru.config.defaultTTL
            /\ (ret'.ttl = Some(0) \/ (ret'.ttl = Undefined /\ lru.config.defaultTTL = 0)) =>
                    lru'.cache[k].expiresAt = NULL
            /\ \A j \in DOMAIN lru'.cache \ {k} :
                    j \in DOMAIN lru.cache /\ lru'.cache[j].expiresAt = lru.cache[j].expiresAt
        /\ (k \in DOMAIN lru.cache /\ lru.cache[k].expiresAt = NULL) =>
            /\ Completes("get", k) => ret'.value = Some(lru.cache[k].value)
            /\ Completes("has", k) => ret'.flag = TRUE
            /\ Completes("cleanup", << >>) => k \in DOMAIN lru'.cache]_vars

\* C26 witness: at the last instant of the clock a get returns the value of an
\* entry that never expires, stored next to an entry that expires
C26_Witness ==
    /\ now = MaxTime
    /\ ret.op = "get" /\ ret.value # Undefined
    /\ lru.cache[ret.key].expiresAt = NULL
    /\ \E j \in DOMAIN lru.cache : lru.cache[j].expiresAt = 2

\* the keys whose entries are expired at the current time
ExpiredNow ==
    { k \in DOMAIN lru.cache :
        lru.cache[k].expiresAt # NULL /\ now > lru.cache[k].expiresAt }

\* C27: cleanup() removes exactly the entries expired at the time of the call,
\* returns their number, and leaves every other entry present with its value and
\* its place in the recency order
C27_CleanupRemovesExpired ==
    [][Completes("cleanup", << >>) =>
        /\ DOMAIN lru'.cache = (DOMAIN lru.cache) \ ExpiredNow
        /\ ret'.count = Cardinality(ExpiredNow)
        /\ \A k \in DOMAIN lru'.cache : lru'.cache[k] = lru.cache[k]
        /\ lru'.accessOrder = SelectSeq(lru.accessOrder, LAMBDA k : k \notin ExpiredNow)
        /\ lru'.metrics.size = size(lru')]_vars

\* C27 witness: a cleanup removed two expired entries at once
C27_Witness ==
    /\ ret.op = "cleanup" /\ ret.count = 2
    /\ size(lru) = 0
    /\ now > 0

\* a cleanup removed one expired entry and kept the entry that is not expired
C27_KeptOne ==
    /\ ret.op = "cleanup" /\ ret.count = 1
    /\ size(lru) = 1

\* hitRate is 100 * hits / (hits + misses), or 0 when no get has been counted
HitRateDerived ==
    lru.metrics.hitRate =
        IF lru.metrics.hits + lru.metrics.misses > 0
        THEN <<100 * lru.metrics.hits, lru.metrics.hits + lru.metrics.misses>>
        ELSE <<0, 1>>

\* a get counts one miss when the key is absent or expired and one hit when it
\* returns the stored value; has, set and delete count nothing
CountsGets ==
    \A k \in Keys :
        /\ Completes("get", k) =>
            /\ ret'.value = Undefined <=> (k \notin DOMAIN lru.cache \/ k \in ExpiredNow)
            /\ ret'.value = Undefined =>
                /\ lru'.metrics.misses = lru.metrics.misses + 1
                /\ lru'.metrics.hits = lru.metrics.hits
            /\ ret'.value # Undefined =>
                /\ ret'.value = Some(lru.cache[k].value)
                /\ lru'.metrics.hits = lru.metrics.hits + 1
                /\ lru'.metrics.misses = lru.metrics.misses
        /\ (Completes("has", k) \/ Completes("set", k) \/ Completes("delete", k)) =>
            /\ lru'.metrics.hits = lru.metrics.hits
            /\ lru'.metrics.misses = lru.metrics.misses

\* C28: with metrics enabled every get increments exactly one of hits and misses
\* (absent or expired key: a miss; stored value returned: a hit), has, set and
\* delete change neither counter, and hitRate always equals
\* 100 * hits / (hits + misses), or 0 when no get has been counted
C28_HitsAndMisses ==
    [](lru.config.enableMetrics => HitRateDerived)
        /\ [][lru.config.enableMetrics => CountsGets]_vars

\* C28 witness: a get on an expired key was counted as the miss after one hit
C28_Witness ==
    /\ ret.op = "get" /\ ret.value = Undefined
    /\ lru.metrics.hits = 1 /\ lru.metrics.misses = 1
    /\ lru.metrics.hitRate = <<100, 2>>
    /\ now > 0
    /\ size(lru) = 0

\* n distinct keys set into the empty cache of maxSize m, m <= n, and nothing else
InsertedDistinct ==
    fresh.ok /\ Len(fresh.keys) >= lru.config.maxSize

\* evictions grows by the number of entries a set removes, and no other call
\* changes it
CountsOnlyEvictions ==
    \A k \in Keys :
        /\ Completes("set", k) =>
            lru'.metrics.evictions =
                lru.metrics.evictions + Cardinality((DOMAIN lru.cache) \ DOMAIN lru'.cache)
        /\ ( \/ Completes("delete", k) \/ Completes("get", k) \/ Completes("has", k)
             \/ Completes("cleanup", << >>) ) =>
            lru'.metrics.evictions = lru.metrics.evictions

\* C29: the evictions counter equals the number of entries removed to make room
\* at capacity: n distinct keys set into an empty cache of maxSize m, 0 < m <= n,
\* give evictions = n - m; delete, expiry on get or has, and cleanup are never
\* counted
C29_EvictionsCounter ==
    [](InsertedDistinct => lru.metrics.evictions = Len(fresh.keys) - lru.config.maxSize)
        /\ [][CountsOnlyEvictions]_vars

\* the same when the empty string is not among the keys inserted
C29_EvictionsCounterButEmptyKey ==
    []((InsertedDistinct /\ \A i \in 1..Len(fresh.keys) : fresh.keys[i] # << >>)
            => lru.metrics.evictions = Len(fresh.keys) - lru.config.maxSize)
        /\ [][CountsOnlyEvictions]_vars

\* C30: set(k, v, ttl) with a negative ttl is treated as already expired: a
\* following get(k) returns undefined
C30_NegativeTTLExpired ==
    [][\A k \in Keys :
        ( /\ ret.op = "set" /\ ret.key = k
          /\ ret.ttl # Undefined /\ ret.ttl[1] < 0
          /\ Completes("get", k) )
            => ret'.value = Undefined]_vars

\* what the cache does instead: the entry has no expiry and the get returns it
C30_NegativeTTLNeverExpires ==
    [][\A k \in Keys :
        ( /\ ret.op = "set" /\ ret.key = k
          /\ ret.ttl # Undefined /\ ret.ttl[1] < 0
          /\ Completes("get", k) )
            => (ret'.value = ret.value /\ lru.cache[k].expiresAt = NULL)]_vars

-----------------------------------------------------------------------------
(* The LRUCache constructed with maxSize 0 *)

InitZero ==
    /\ lru = NewLRUCache(0, DefaultTTL, 0, TRUE)
    /\ now = 0
    /\ ret = NoCall
    /\ fresh = [ok |-> TRUE, keys |-> << >>]
    /\ nops = 0
    /\ NoMatcher /\ NoTasks /\ NoTimers /\ NoResolver

SpecZero == InitZero /\ [][Next]_vars

\* C31: a cache constructed with maxSize 0 stores nothing: after any set(k, v)
\* size() is 0 and get(k) returns undefined
C31_ZeroStoresNothing ==
    lru.config.maxSize = 0 =>
        /\ size(lru) = 0
        /\ ret.op = "get" => ret.value = Undefined

\* what the cache does instead: every set stores as in a cache of maxSize 1
C31_ZeroActsAsOne ==
    [][\A k \in Keys :
        (lru.config.maxSize = 0 /\ Completes("set", k)) =>
            lru' = [set([lru EXCEPT !.config.maxSize = 1], k, ret'.value[1], ret'.ttl, now)
                        EXCEPT !.config.maxSize = 0]]_vars

\* a set on the cache of maxSize 0 was followed by a get that returned the value
C31_ZeroReturnsValue ==
    /\ lru.config.maxSize = 0
    /\ ret.op = "get" /\ ret.value = Some("v1")
    /\ size(lru) = 1

-----------------------------------------------------------------------------
(* The bookkeeping of the LRUCache *)

\* the keys of the recency order
OrderKeys(c) == { c.accessOrder[i] : i \in 1..Len(c.accessOrder) }

\* C40: in every state reachable by set, get, has, delete, cleanup, clear and
\* eviction the recency order contains exactly the keys of the entry map, each
\* once, and getMetrics().size equals size()
C40_Bookkeeping ==
    /\ OrderKeys(lru) = DOMAIN lru.cache
    /\ Len(lru.accessOrder) = Cardinality(DOMAIN lru.cache)
    /\ lru.metrics.size = size(lru)

\* C40 witness: after an eviction, a cleanup removed an expired entry and left
\* another one
C40_Witness ==
    /\ lru.metrics.evictions > 0
    /\ ret.op = "cleanup" /\ ret.count > 0
    /\ lru.accessOrder # << >>

-----------------------------------------------------------------------------
(* The CachedEntityMatcher under a sequence of calls *)

MatcherCalls == {"matchArtists", "matchVenues", "findBestArtist", "findBestVenue",
                 "batchMatch"}

\* under, restricted to the keys still in the partitions
Prune(u, m) ==
    [ artist |-> [k \in DOMAIN u.artist \cap DOMAIN m.cache.artistCache.cache |->
                    u.artist[k]],
      venue  |-> [k \in DOMAIN u.venue \cap DOMAIN m.cache.venueCache.cache |->
                    u.venue[k]] ]

\* the call op with its arguments completes with r = [x, result]
Returned(op, query, city, queries, r) ==
    /\ nops < MaxCalls
    /\ nops' = nops + 1
    /\ cem' = r.x.m
    /\ under' = Prune(r.x.under, r.x.m)
    /\ mret' = [ op |-> op, query |-> query, city |-> city, queries |-> queries,
                 config |-> cem.config,
                 result |-> r.result, invoked |-> r.x.invoked, from |-> r.x.from ]
    /\ UNCHANGED <<db, now, lru, ret, fresh, tasks, resolver, rret, timers, destroyed>>

MatchArtists(query) ==
    Returned("matchArtists", query, << >>, << >>,
             cachedMatchArtists(Ctx(cem, under), query, db.artists, now))

MatchVenues(query, cityFilter) ==
    Returned("matchVenues", query, cityFilter, << >>,
             cachedMatchVenues(Ctx(cem, under), query, db.venues, cityFilter, now))

FindBestArtist(query) ==
    Returned("findBestArtist", query, << >>, << >>,
             cachedFindBestArtist(Ctx(cem, under), query, db.artists, now))

FindBestVenue(query, cityFilter) ==
    Returned("findBestVenue", query, cityFilter, << >>,
             cachedFindBestVenue(Ctx(cem, under), query, db.venues, cityFilter, now))

BatchMatch(queries) ==
    Returned("batchMatch", << >>, << >>, queries,
             cachedBatchMatch(Ctx(cem, under), queries, db.artists, db.venues, now))

UpdateConfig(partial) ==
    Returned("updateConfig", << >>, << >>, << >>,
             [ x |-> Ctx([cem EXCEPT !.config = updateConfig(@, partial)], under),
               result |-> << >> ])

ClearCache ==
    Returned("clearCache", << >>, << >>, << >>,
             [x |-> Ctx(clearCache(cem), under), result |-> << >>])

\* the caller replaces its artist list or its venue list
ChangeLists(artists, venues) ==
    /\ <<artists, venues>> # <<db.artists, db.venues>>
    /\ db' = [artists |-> artists, venues |-> venues, changed |-> TRUE]
    /\ UNCHANGED <<cem, mret, under, nops, now, lru, ret, fresh, tasks, resolver, rret, timers, destroyed>>

InitM ==
    /\ lru = NewLRUCache(1, DefaultTTL, 0, TRUE)
    /\ ret = NoCall
    /\ fresh = NotFresh
    /\ now = 0
    /\ nops = 0
    /\ IdleMatcher
    /\ NoTasks
    /\ NoResolver
    /\ NoTimers

NextM ==
    \/ \E q \in Queries : MatchArtists(q)
    \/ \E q \in Queries, city \in CityFilters : MatchVenues(q, city)
    \/ \E q \in Queries : FindBestArtist(q)
    \/ \E q \in Queries, city \in CityFilters : FindBestVenue(q, city)
    \/ \E qs \in Batches : BatchMatch(qs)
    \/ \E p \in Partials : UpdateConfig(p)
    \/ ClearCache
    \/ \E l \in ListChoices : ChangeLists(l.artists, l.venues)
    \/ Tick

SpecM == InitM /\ [][NextM]_vars

-----------------------------------------------------------------------------
(* Claims about the CachedEntityMatcher and the MatcherCache keys *)

\* what the uncached EntityMatcher returns for the call recorded in r
UncachedResult(r) ==
    CASE r.op = "matchArtists"   -> matchArtists(r.config, r.query, db.artists)
      [] r.op = "matchVenues"    -> matchVenues(r.config, r.query, db.venues, r.city)
      [] r.op = "findBestArtist" -> findBestArtist(r.config, r.query, db.artists)
      [] r.op = "findBestVenue"  -> findBestVenue(r.config, r.query, db.venues, r.city)
      [] r.op = "batchMatch"     -> batchMatch(r.config, r.queries, db.artists, db.venues)

\* C6: while the artist list and the venue list are unchanged, every matching call
\* returns what the uncached EntityMatcher returns for the same arguments under the
\* config current at the time of the call
C6_TransparentWrapper ==
    (~ db.changed /\ mret.op \in MatcherCalls) => mret.result = UncachedResult(mret)

\* C7: a result stored under MatchConfig c1 is never returned by a lookup made with
\* a MatchConfig c2 # c1
C7_ConfigsHaveDistinctKeys ==
    mret.from \subseteq {mret.config}

\* the step completes a call op with this query and city filter
Calls(op, query, city) ==
    nops' = nops + 1 /\ mret'.op = op /\ mret'.query = query /\ mret'.city = city

\* the last call was op with this query and city filter, missed and computed
Computed(op, query, city) ==
    mret.op = op /\ mret.query = query /\ mret.city = city /\ mret.invoked = 1

\* the partition c holds value under key and its TTL has not elapsed at time t
Holds(c, key, value, t) ==
    key \in DOMAIN c.cache /\ c.cache[key].value = value /\ ~ isExpired(c.cache[key], t)

\* C8: a matchArtists / matchVenues call that misses and computes r stores r; the
\* next call with the same query, city filter and config returns r from the cache
\* without invoking the EntityMatcher unless the entry has expired; an empty r too
C8_MissThenHit ==
    [][\A q \in Queries, city \in CityFilters :
        /\ (Calls("matchArtists", q, << >>) /\ mret'.invoked = 1) =>
                Holds(cem'.cache.artistCache, generateArtistCacheKey(q, cem.config),
                      mret'.result, now)
        /\ (Calls("matchVenues", q, city) /\ mret'.invoked = 1) =>
                Holds(cem'.cache.venueCache, generateVenueCacheKey(q, cem.config, city),
                      mret'.result, now)
        /\ ( /\ Computed("matchArtists", q, << >>) /\ Calls("matchArtists", q, << >>)
             /\ db.artists # << >>
             /\ Holds(cem.cache.artistCache, generateArtistCacheKey(q, cem.config),
                      mret.result, now) ) =>
                mret'.result = mret.result /\ mret'.invoked = 0
        /\ ( /\ Computed("matchVenues", q, city) /\ Calls("matchVenues", q, city)
             /\ db.venues # << >>
             /\ Holds(cem.cache.venueCache, generateVenueCacheKey(q, cem.config, city),
                      mret.result, now) ) =>
                mret'.result = mret.result /\ mret'.invoked = 0]_vars

\* C8 witness: the second call is a matchArtists('b', artists) served from the
\* cache with the empty list that the first call computed and stored
C8_Witness ==
    /\ nops = 2
    /\ mret.op = "matchArtists" /\ mret.query = <<"b">>
    /\ mret.result = << >> /\ mret.invoked = 0 /\ mret.from # {}
    /\ cem.cache.artistCache.metrics.hits = 1
    /\ cem.cache.artistCache.metrics.misses = 1

-----------------------------------------------------------------------------
(* The LRUCache under concurrent callers.  Each caller schedules calls of set,  *)
(* get and delete; a scheduled call runs one statement at a time.  The methods  *)
(* are synchronous, so a call starts only when no other call is on the stack;   *)
(* Date.now() may advance while a call runs.                                    *)

\* the writes of the callers: v1 is stored without expiry, v2 with the default TTL
Writes == { [value |-> "v1", ttl |-> Some(0)], [value |-> "v2", ttl |-> Undefined] }

InCall(f) == f.pc \notin {"idle", "pending"}

\* mutant: a call may start while another caller is inside a call
CanStart_preempt(t) == TRUE

\* a scheduled call of t starts when no call is running
CanStart(t) == \A u \in Tasks : ~ InCall(tasks[u])

\* the call returns result r
Return(f, r) ==
    [f EXCEPT !.pc = "idle", !.entry = Undefined, !.lruKey = Undefined, !.result = r]

\* the statements of evictLRU inside set
evictStep(c, f) ==
    CASE f.pc = "evict" ->
            LET lruKey == IF c.accessOrder = << >> THEN Undefined
                          ELSE Some(Head(c.accessOrder))
            IN  [ c |-> c,
                  f |-> [f EXCEPT !.lruKey = lruKey,
                                  !.pc = IF lruKey # Undefined /\ Truthy(lruKey[1])
                                         THEN "evictMap" ELSE "insert"] ]
      [] f.pc = "evictMap" ->
            [ c |-> [c EXCEPT !.cache = MapDelete(@, f.lruKey[1])],
              f |-> [f EXCEPT !.pc = "evictOrder"] ]
      [] f.pc = "evictOrder" ->
            [ c |-> [c EXCEPT !.accessOrder = OrderDelete(@, f.lruKey[1])],
              f |-> [f EXCEPT !.pc = "evictCount"] ]
      [] f.pc = "evictCount" ->
            [ c |-> updateSize([c EXCEPT !.metrics.evictions = @ + 1]),
              f |-> [f EXCEPT !.pc = "insert", !.lruKey = Undefined] ]

\* the statements of set(key, value, ttl); t is Date.now()
setStep(c, f, t) ==
    CASE f.pc = "lock" ->
            [ c |-> [c EXCEPT !.lock = @ \cup {f.key}],
              f |-> [f EXCEPT !.pc = "entry"] ]
      [] f.pc = "entry" ->
            [ c |-> c,
              f |-> [f EXCEPT !.entry = Some(newEntry(c, f.value[1], f.ttl, t)),
                              !.pc = IF f.key \in DOMAIN c.cache
                                     THEN "update" ELSE "capacity"] ]
      [] f.pc = "update" ->
            [ c |-> [c EXCEPT !.cache = MapSet(@, f.key, f.entry[1])],
              f |-> [f EXCEPT !.pc = "orderDelete"] ]
      [] f.pc = "orderDelete" ->
            [ c |-> [c EXCEPT !.accessOrder = OrderDelete(@, f.key)],
              f |-> [f EXCEPT !.pc = "orderAdd"] ]
      [] f.pc = "orderAdd" ->
            [ c |-> [c EXCEPT !.accessOrder = OrderAdd(@, f.key)],
              f |-> [f EXCEPT !.pc = "unlock"] ]
      [] f.pc = "capacity" ->
            [ c |-> c,
              f |-> [f EXCEPT !.pc = IF size(c) >= c.config.maxSize
                                     THEN "evict" ELSE "insert"] ]
      [] f.pc \in {"evict", "evictMap", "evictOrder", "evictCount"} -> evictStep(c, f)
      [] f.pc = "insert" ->
            [ c |-> [c EXCEPT !.cache = MapSet(@, f.key, f.entry[1])],
              f |-> [f EXCEPT !.pc = "append"] ]
      [] f.pc = "append" ->
            [ c |-> [c EXCEPT !.accessOrder = OrderAdd(@, f.key)],
              f |-> [f EXCEPT !.pc = "size"] ]
      [] f.pc = "size" ->
            [ c |-> updateSize(c), f |-> [f EXCEPT !.pc = "unlock"] ]
      [] f.pc = "unlock" ->
            [ c |-> [c EXCEPT !.lock = @ \ {f.key}], f |-> Return(f, Undefined) ]

\* the statements of get(key); t is Date.now(); entry is the object of the map slot
getStep(c, f, t) ==
    CASE f.pc = "spin" ->
            [ c |-> c, f |-> [f EXCEPT !.pc = IF f.key \in c.lock THEN "spin" ELSE "read"] ]
      [] f.pc = "read" ->
            IF f.key \notin DOMAIN c.cache
            THEN [ c |-> recordMiss(c), f |-> Return(f, Undefined) ]
            ELSE [ c |-> c, f |-> [f EXCEPT !.entry = Some(c.cache[f.key]),
                                            !.pc = "expiry"] ]
      [] f.pc = "expiry" ->
            [ c |-> c,
              f |-> [f EXCEPT !.pc = IF isExpired(f.entry[1], t)
                                     THEN "expiredMap" ELSE "orderDelete"] ]
      [] f.pc = "expiredMap" ->
            [ c |-> [c EXCEPT !.cache = MapDelete(@, f.key)],
              f |-> [f EXCEPT !.pc = "expiredOrder"] ]
      [] f.pc = "expiredOrder" ->
            [ c |-> [c EXCEPT !.accessOrder = OrderDelete(@, f.key)],
              f |-> [f EXCEPT !.pc = "expiredMiss"] ]
      [] f.pc = "expiredMiss" ->
            [ c |-> recordMiss(updateSize(c)), f |-> Return(f, Undefined) ]
      [] f.pc = "orderDelete" ->
            [ c |-> [c EXCEPT !.accessOrder = OrderDelete(@, f.key)],
              f |-> [f EXCEPT !.pc = "orderAdd"] ]
      [] f.pc = "orderAdd" ->
            [ c |-> [c EXCEPT !.accessOrder = OrderAdd(@, f.key)],
              f |-> [f EXCEPT !.pc = "count"] ]
      [] f.pc = "count" ->
            [ c |-> IF f.key \in DOMAIN c.cache
                    THEN [c EXCEPT !.cache[f.key].accessCount = @ + 1] ELSE c,
              f |-> [f EXCEPT !.pc = "hit"] ]
      [] f.pc = "hit" ->
            [ c |-> recordHit(c), f |-> Return(f, Some(f.entry[1].value)) ]

\* mutant: delete without the finally block: the return statement leaves the key locked
deleteStep_noFinally(c, f) ==
    CASE f.pc = "lock" ->
            [ c |-> [c EXCEPT !.lock = @ \cup {f.key}],
              f |-> [f EXCEPT !.pc = "remove"] ]
      [] f.pc = "remove" ->
            [ c |-> [c EXCEPT !.cache = MapDelete(@, f.key)],
              f |-> [f EXCEPT !.result = Some(f.key \in DOMAIN c.cache),
                              !.pc = IF f.key \in DOMAIN c.cache
                                     THEN "order" ELSE "unlock"] ]
      [] f.pc = "order" ->
            [ c |-> [c EXCEPT !.accessOrder = OrderDelete(@, f.key)],
              f |-> [f EXCEPT !.pc = "size"] ]
      [] f.pc = "size" ->
            [ c |-> updateSize(c), f |-> [f EXCEPT !.pc = "unlock"] ]
      [] f.pc = "unlock" ->
            [ c |-> c, f |-> Return(f, f.result) ]

\* the statements of delete(key)
deleteStep(c, f) ==
    CASE f.pc = "lock" ->
            [ c |-> [c EXCEPT !.lock = @ \cup {f.key}],
              f |-> [f EXCEPT !.pc = "remove"] ]
      [] f.pc = "remove" ->
            [ c |-> [c EXCEPT !.cache = MapDelete(@, f.key)],
              f |-> [f EXCEPT !.result = Some(f.key \in DOMAIN c.cache),
                              !.pc = IF f.key \in DOMAIN c.cache
                                     THEN "order" ELSE "unlock"] ]
      [] f.pc = "order" ->
            [ c |-> [c EXCEPT !.accessOrder = OrderDelete(@, f.key)],
              f |-> [f EXCEPT !.pc = "size"] ]
      [] f.pc = "size" ->
            [ c |-> updateSize(c), f |-> [f EXCEPT !.pc = "unlock"] ]
      [] f.pc = "unlock" ->
            [ c |-> [c EXCEPT !.lock = @ \ {f.key}], f |-> Return(f, f.result) ]

concVars == <<ret, fresh, cem, db, mret, under, timers, destroyed, resolver, rret>>

\* caller t schedules a call
Invoke(t, op, key, value, ttl) ==
    /\ tasks[t].pc = "idle"
    /\ nops < MaxInvoked
    /\ nops' = nops + 1
    /\ tasks' = [tasks EXCEPT ![t] =
                    [Idle EXCEPT !.pc = "pending", !.op = op, !.key = key,
                                 !.value = value, !.ttl = ttl]]
    /\ UNCHANGED <<lru, now, concVars>>

\* the scheduled call of t is entered
Start(t) ==
    /\ tasks[t].pc = "pending"
    /\ CanStart(t)
    /\ tasks' = [tasks EXCEPT ![t].pc = IF tasks[t].op = "get" THEN "spin" ELSE "lock"]
    /\ UNCHANGED <<lru, now, nops, concVars>>

\* the call of t executes its next statement
Step(t) ==
    /\ InCall(tasks[t])
    /\ LET f == tasks[t]
           r == CASE f.op = "set"    -> setStep(lru, f, now)
                  [] f.op = "get"    -> getStep(lru, f, now)
                  [] f.op = "delete" -> deleteStep(lru, f)
       IN  lru' = r.c /\ tasks' = [tasks EXCEPT ![t] = r.f]
    /\ UNCHANGED <<now, nops, concVars>>

InitConc ==
    /\ \E m \in 1..MaxSize : lru = NewLRUCache(m, DefaultTTL, 0, TRUE)
    /\ ret = NoCall
    /\ fresh = NotFresh
    /\ now = 0
    /\ nops = 0
    /\ NoMatcher
    /\ NoTasks
    /\ NoResolver
    /\ NoTimers

NextConc ==
    \/ \E t \in Tasks, k \in Keys, w \in Writes : Invoke(t, "set", k, Some(w.value), w.ttl)
    \/ \E t \in Tasks, k \in Keys : Invoke(t, "get", k, Undefined, Undefined)
    \/ \E t \in Tasks, k \in Keys : Invoke(t, "delete", k, Undefined, Undefined)
    \/ \E t \in Tasks : Start(t)
    \/ \E t \in Tasks : Step(t)
    \/ Tick

SpecConc == InitConc /\ [][NextConc]_vars

-----------------------------------------------------------------------------
(* Claims about the LRUCache under concurrent callers *)

\* the entry map and the recency order hold the same keys, and metrics.size is size()
Agree(c) ==
    /\ DOMAIN c.cache = { c.accessOrder[i] : i \in 1..Len(c.accessOrder) }
    /\ Len(c.accessOrder) = Cardinality(DOMAIN c.cache)
    /\ c.metrics.size = size(c)

\* the call of f is a set or a delete in progress
Mutating(f) == InCall(f) /\ f.op \in {"set", "delete"}

\* the keys the call of f writes: its own key and the key it evicts
Touched(f) == {f.key} \cup (IF f.lruKey # Undefined THEN {f.lruKey[1]} ELSE {})

Paired(entry) == (entry.value = "v1") <=> (entry.expiresAt = NULL)

Locking == \E t \in Tasks : InCall(tasks[t]) /\ tasks[t].op \in {"set", "delete"}

\* C39: the lock set is empty whenever no set or delete is executing, so the
\* wait loop at the start of a get finds its key unlocked and ends
C39_LockReleased ==
    /\ ~ Locking => lru.lock = {}
    /\ \A t \in Tasks : tasks[t].pc = "spin" => tasks[t].key \notin lru.lock

\* C39 witness: a delete that removed the entry of 'a' has returned, and a get of
\* 'a' is past its wait loop
C39_Witness ==
    /\ tasks[1].pc = "idle" /\ tasks[1].op = "delete" /\ tasks[1].key = <<"a">>
    /\ tasks[1].result = Some(TRUE)
    /\ tasks[2].pc = "read" /\ tasks[2].op = "get" /\ tasks[2].key = <<"a">>
    /\ lru.lock = {}

\* a set of a key already present is at the end of its early-return path, the
\* key still locked
C39_EarlyReturnHoldsLock ==
    \E t \in Tasks :
        /\ tasks[t].op = "set" /\ tasks[t].pc = "orderAdd"
        /\ lru.lock = {tasks[t].key}

\* the early-return path of set releases the key when the call returns
C39_EarlyReturnReleases ==
    [][\A t \in Tasks :
        (tasks[t].op = "set" /\ tasks[t].pc = "unlock" /\ tasks'[t].pc = "idle")
            => lru'.lock = {}]_vars

-----------------------------------------------------------------------------
(* Timers of the host and the caches' background sweep *)

MaxInterval == 2    \* largest cleanupInterval a cache is constructed with
MaxSweepCalls == 3  \* calls on the cache with a timer per behaviour

\* mutant: the sweep is scheduled with setTimeout and runs once
startCleanupTimer_once(ts, owner, c) ==
    MapSet(ts, owner, [due |-> c.config.cleanupInterval, every |-> 0])

\* startCleanupTimer: setInterval(() => this.cleanup(), cleanupInterval); a pending
\* timer is [due: time left until it fires, every: its period, 0 for a setTimeout]
startCleanupTimer(ts, owner, c) ==
    MapSet(ts, owner, [due |-> c.config.cleanupInterval,
                       every |-> c.config.cleanupInterval])

\* the constructor's last statement, on the host's timers ts
constructTimers(ts, owner, c) ==
    IF c.config.cleanupInterval > 0 THEN startCleanupTimer(ts, owner, c) ELSE ts

\* mutant: destroy() forgets the handle without clearing the interval
destroy_leak(c, ts, owner) ==
    [ c |-> [clear(c) EXCEPT !.cleanupTimer = FALSE], timers |-> ts ]

\* destroy()
destroy(c, ts, owner) ==
    [ c |-> [clear(c) EXCEPT !.cleanupTimer = FALSE],
      timers |-> IF c.cleanupTimer THEN MapDelete(ts, owner) ELSE ts ]

\* one unit of time passes for the pending timers
elapse(ts) == [o \in DOMAIN ts |-> [ts[o] EXCEPT !.due = Max(@ - 1, 0)]]

\* the timer of owner has run its callback: an interval is rescheduled, a timeout is gone
fired(ts, owner) ==
    IF ts[owner].every > 0
    THEN [ts EXCEPT ![owner].due = ts[owner].every]
    ELSE MapDelete(ts, owner)

Due(owner) == owner \in DOMAIN timers /\ timers[owner].due = 0

\* time passes.  Past MaxTime the clock reading is held, so that nothing further
\* expires, while the pending timers still run down.
Elapse ==
    /\ now < MaxTime \/ \E o \in DOMAIN timers : timers[o].due > 0
    /\ now' = Min(now + 1, MaxTime)
    /\ timers' = elapse(timers)
    /\ UNCHANGED <<lru, ret, fresh, nops, matcherVars, tasks, resolver, rret, destroyed>>

\* the interval callback of lru: this.cleanup()
Sweep ==
    /\ Due("lru")
    /\ lru' = cleanup(lru, now).c
    /\ timers' = fired(timers, "lru")
    /\ ret' = Call("sweep", <<>>, Undefined, Undefined, FALSE, cleanup(lru, now).result)
    /\ fresh' = NotFresh
    /\ UNCHANGED <<now, nops, matcherVars, tasks, resolver, rret, destroyed>>

\* lru.destroy(); flag records that it had been destroyed before
Destroy ==
    /\ nops < MaxSweepCalls
    /\ nops' = nops + 1
    /\ lru' = destroy(lru, timers, "lru").c
    /\ timers' = destroy(lru, timers, "lru").timers
    /\ destroyed' = TRUE
    /\ ret' = Call("destroy", <<>>, Undefined, Undefined, destroyed, 0)
    /\ fresh' = NotFresh
    /\ UNCHANGED <<now, matcherVars, tasks, resolver, rret>>

\* a public call on the cache with a timer
SweepCall ==
    /\ nops < MaxSweepCalls
    /\ \/ \E k \in Keys, v \in Values, ttl \in TTLArgs : Set(k, v, ttl)
       \/ \E k \in Keys : Get(k)
       \/ \E k \in Keys : Has(k)
       \/ Cleanup

InitTimer ==
    /\ \E i \in 0..MaxInterval :
        /\ lru = NewLRUCache(MaxSize, DefaultTTL, i, TRUE)
        /\ timers = constructTimers(<< >>, "lru", lru)
    /\ destroyed = FALSE
    /\ now = 0
    /\ ret = NoCall
    /\ fresh = NotFresh
    /\ nops = 0
    /\ NoMatcher
    /\ NoTasks
    /\ NoResolver

NextTimer ==
    \/ SweepCall
    \/ Destroy
    \/ Elapse
    \/ Sweep

\* time passes, and the event loop runs a callback that is due
SpecTimer == InitTimer /\ [][NextTimer]_vars /\ WF_vars(Elapse) /\ WF_vars(Sweep)

\* C11: in a cache constructed with cleanupInterval > 0 and not destroyed, an entry
\* whose TTL has elapsed is eventually removed, whatever calls are or are not made
C11_SweepRemovesExpired ==
    \A k \in Keys :
        ( /\ lru.config.cleanupInterval > 0 /\ ~ destroyed
          /\ k \in DOMAIN lru.cache /\ isExpired(lru.cache[k], now) )
        ~> ( k \notin DOMAIN lru.cache \/ ~ isExpired(lru.cache[k], now) )

\* C11 witness: after a single set call, the timer's sweep removed the expired entry
C11_Witness ==
    /\ nops = 1 /\ ~ destroyed
    /\ ret.op = "sweep" /\ ret.count = 1
    /\ size(lru) = 0 /\ lru.metrics.size = 0

\* C12: when destroy() returns the cache is empty and its timer is cancelled, also
\* when it had been destroyed before; the sweep never runs after a destroy()
C12_DestroyStopsSweep ==
    [][ /\ (ret'.op = "destroy" /\ nops' = nops + 1) =>
            /\ size(lru') = 0
            /\ ~ lru'.cleanupTimer
            /\ "lru" \notin DOMAIN timers'
        /\ destroyed => ~ Sweep ]_vars

\* C12 witness: a second destroy() returned on a cache that had a timer, and a set
\* call was made in between
C12_Witness ==
    /\ ret.op = "destroy" /\ ret.flag
    /\ lru.config.cleanupInterval > 0
    /\ nops = 3 /\ now > 0
    /\ timers = << >> /\ size(lru) = 0

-----------------------------------------------------------------------------
(* The MatcherCache and its timers: three partition sweeps and the warm-up *)

Partitions == {"artistCache", "venueCache", "aliasCache"}

\* scheduleWarmup: setTimeout(..., 5000), here in the time unit of the model
WarmupDelay == 2

scheduleWarmup(ts) == MapSet(ts, "warmup", [due |-> WarmupDelay, every |-> 0])

\* the timers the MatcherCache constructor leaves pending
matcherTimers(mc) ==
    LET a == constructTimers(<< >>, "artistCache", mc.artistCache)
        v == constructTimers(a, "venueCache", mc.venueCache)
        l == constructTimers(v, "aliasCache", mc.aliasCache)
    IN  IF mc.config.enableWarming THEN scheduleWarmup(l) ELSE l

\* MatcherCache.destroy
destroyMatcherCache(mc, ts) ==
    LET a == destroy(mc.artistCache, ts, "artistCache")
        v == destroy(mc.venueCache, a.timers, "venueCache")
        l == destroy(mc.aliasCache, v.timers, "aliasCache")
    IN  [ mc |-> [mc EXCEPT !.artistCache = a.c, !.venueCache = v.c,
                            !.aliasCache = l.c],
          timers |-> l.timers ]

\* CachedEntityMatcher.destroy
cachedDestroy(m, ts) ==
    [ m |-> [m EXCEPT !.cache = destroyMatcherCache(m.cache, ts).mc],
      timers |-> destroyMatcherCache(m.cache, ts).timers ]

DestroyMatcher ==
    /\ nops < MaxCalls
    /\ nops' = nops + 1
    /\ cem' = cachedDestroy(cem, timers).m
    /\ timers' = cachedDestroy(cem, timers).timers
    /\ destroyed' = TRUE
    /\ under' = Prune(under, cem')
    /\ mret' = [NoMatch EXCEPT !.op = "destroy", !.config = cem.config]
    /\ UNCHANGED <<db, now, lru, ret, fresh, tasks, resolver, rret>>

\* the interval callback of partition p
SweepPartition(p) ==
    /\ Due(p)
    /\ cem' = [cem EXCEPT !.cache[p] = cleanup(@, now).c]
    /\ timers' = fired(timers, p)
    /\ under' = Prune(under, cem')
    /\ UNCHANGED <<db, mret, nops, now, lru, ret, fresh, tasks, resolver, rret, destroyed>>

\* the warm-up timeout runs: it logs a message
Warmup ==
    /\ Due("warmup")
    /\ timers' = fired(timers, "warmup")
    /\ UNCHANGED <<cem, db, mret, under, nops, now, lru, ret, fresh, tasks, resolver, rret, destroyed>>

InitDestroy ==
    /\ \E i \in 0..MaxInterval, w \in BOOLEAN :
        /\ cem = NewCachedEntityMatcher(<< >>, [cacheConfig EXCEPT
                                                   !.cleanupInterval = i,
                                                   !.enableWarming = w])
        /\ timers = matcherTimers(cem.cache)
    /\ destroyed = FALSE
    /\ db = [artists |-> Artists, venues |-> Venues, changed |-> FALSE]
    /\ mret = NoMatch
    /\ under = [artist |-> << >>, venue |-> << >>]
    /\ lru = NewLRUCache(1, DefaultTTL, 0, TRUE)
    /\ ret = NoCall
    /\ fresh = NotFresh
    /\ now = 0
    /\ nops = 0
    /\ NoTasks
    /\ NoResolver

NextDestroy ==
    \/ \E q \in Queries : MatchArtists(q)
    \/ \E q \in Queries, city \in CityFilters : MatchVenues(q, city)
    \/ DestroyMatcher
    \/ \E p \in Partitions : SweepPartition(p)
    \/ Warmup
    \/ Elapse

SpecDestroy == InitDestroy /\ [][NextDestroy]_vars

\* C13: once destroy() has returned no timer of the cache layer is pending: the
\* three partition sweeps and the task scheduled by the constructor are cancelled
C13_NoTimerAfterDestroy == destroyed => timers = << >>

\* the same for a cache constructed with enableWarming false
C13_SweepsCancelled ==
    (destroyed /\ ~ cem.cache.config.enableWarming) => timers = << >>

-----------------------------------------------------------------------------
(* Text normalizer (matchers/text-normalizer).  A character outside ASCII is held *)
(* as a one-element token: "e_acute" is the letter e with an acute accent.        *)

\* the entries of UNICODE_MAP for the characters that occur here
UnicodeMap == [e_acute |-> <<"e">>, eszett |-> <<"s", "s">>]

\* the class \w, for the characters that occur here
WordChars ==
    {"a", "b", "c", "d", "e", "g", "h", "j", "l", "m", "n", "s", "t", "x", "y", "z",
     "_", "2"}
        \cup DOMAIN Upper

\* convertUnicode, and removeAccents after it: every mapped character is replaced
RECURSIVE convertUnicode(_)
convertUnicode(text) ==
    IF text = << >> THEN << >>
    ELSE (IF Head(text) \in DOMAIN UnicodeMap THEN UnicodeMap[Head(text)]
          ELSE <<Head(text)>>) \o convertUnicode(Tail(text))

\* removePunctuation: what is not a word character, white space, ' or - becomes a
\* space, a run of ' and - becomes a space, a run of white space becomes one space
removePunctuation(text) ==
    collapseSpaces([i \in 1..Len(text) |->
                        IF text[i] \in WordChars THEN text[i] ELSE " "])

\* normalizeWhitespace: trim, then collapse
normalizeWhitespace(text) == collapseSpaces(trim(text))

\* String.prototype.split(/\s+/), word being the word read so far
RECURSIVE split(_, _)
split(text, word) ==
    IF text = << >> THEN <<word>>
    ELSE IF IsSpace(Head(text)) THEN <<word>> \o split(trimStart(text), << >>)
    ELSE split(Tail(text), Append(word, Head(text)))

\* Array.prototype.join(' ')
RECURSIVE join(_)
join(words) ==
    IF words = << >> THEN << >>
    ELSE IF Len(words) = 1 THEN words[1]
    ELSE words[1] \o <<" ">> \o join(Tail(words))

\* removeArticles: a, an and the are dropped unless the text is a single word
removeArticles(text) ==
    IF Len(split(text, << >>)) > 1
    THEN join(SelectSeq(split(text, << >>),
                        LAMBDA word : toLowerCase(word) \notin ArticleWords))
    ELSE text

\* normalizeForMatching: normalizeText with every step but removeStopWords
normalizeForMatching(text) ==
    normalizeWhitespace(removeArticles(normalizeWhitespace(removePunctuation(
        toLowerCase(convertUnicode(convertUnicode(text)))))))

\* the percentage of the text normalizer's calculateSimilarity for normalized texts
textSimilarityOf(n1, n2) ==
    IF n1 = n2 THEN 100
    ELSE IF Len(n1) = 0 \/ Len(n2) = 0 THEN 0
    ELSE RoundDiv((Max(Len(n1), Len(n2)) - levenshteinDistance(n1, n2)) * 100,
                  Max(Len(n1), Len(n2)))

\* calculateSimilarity of matchers/text-normalizer
calculateTextSimilarity(text1, text2) ==
    textSimilarityOf(normalizeForMatching(text1), normalizeForMatching(text2))

-----------------------------------------------------------------------------
(* The EntityMatcher and the confidence scorer applied to chosen inputs *)

\* candidates in an order that is not the order of their scores
ScoreArtists ==
    << [id |-> <<"1">>, name |-> <<"a", "b">>, aliases |-> << >>],
       [id |-> <<"3">>, name |-> <<"a", "b", "c", "d">>, aliases |-> << <<"x", "b">> >>],
       [id |-> <<"2">>, name |-> <<"a", "b", "c">>, aliases |-> << <<"a", "b">> >>],
       [id |-> <<"4">>, name |-> <<"b">>, aliases |-> << >>] >>

ScoreVenues ==
    << [id |-> <<"1">>, name |-> <<"a", "b">>, aliases |-> << >>, city |-> <<"x">>],
       [id |-> <<"2">>, name |-> <<"a", "b", "c">>, aliases |-> << >>, city |-> <<"y">>],
       [id |-> <<"3">>, name |-> <<"b", "c">>, aliases |-> << >>, city |-> <<"x", "y">>] >>

ScoreQueries ==
    { <<"a", "b", "c">>, <<"a", "b">>, <<"T", "h", "e", " ", "a", "b">>, <<" ", "b">>,
      << >> }

\* weights in hundredths: the defaults, a low exact weight, a weight above 1 and a
\* negative weight
ScoreWeights ==
    { << >>,
      [exactMatchWeight |-> 50],
      [fuzzyMatchWeight |-> 120, aliasMatchWeight |-> -50] }

ScoreConfigs ==
    { Merge(Merge(DEFAULT_MATCH_CONFIG, w), [maxResults |-> r, minConfidence |-> c]) :
        w \in ScoreWeights, r \in {-1, 0, 1, 2, 10}, c \in {0, 30, 70} }

\* texts: empty, blank, punctuation only, an article alone and in front, an accent
Texts ==
    { << >>, <<" ">>, <<".">>, <<"t", "h", "e">>, <<"T", "h", "e", " ", "a", "b">>,
      <<"a", "b">>, <<"a", "-", "b">>, <<"e_acute", "b">>, <<"e", "b">> }

Breakdowns ==
    [ exactMatch : {0, 100}, aliasMatch : {0, 33, 50, 100},
      fuzzyMatch : {0, 50, 67, 100}, weighted : {0} ]

\* the call op completes with result
Scored(op, query, city, arg, result) ==
    /\ mret' = [ op |-> op, query |-> query, city |-> city, arg |-> arg,
                 result |-> result ]
    /\ UNCHANGED <<cem, db, under, nops, now, lru, ret, fresh, tasks, resolver, rret, timers, destroyed>>

ScoreEntities(query) ==
    Scored("scoreEntities", query, << >>, << >>,
           scoreEntities(query, db.artists, cem.config))

PlainMatchArtists(query) ==
    Scored("matchArtists", query, << >>, << >>,
           matchArtists(cem.config, query, db.artists))

PlainMatchVenues(query, cityFilter) ==
    Scored("matchVenues", query, cityFilter, << >>,
           matchVenues(cem.config, query, db.venues, cityFilter))

Weigh(breakdown) ==
    Scored("calculateWeightedScore", << >>, << >>, <<breakdown>>,
           calculateWeightedScore(breakdown, cem.config))

\* both similarity functions applied to the texts a and b
Similarity(a, b) ==
    Scored("calculateSimilarity", a, << >>, <<b>>,
           [ matcher |-> calculateSimilarity(a, b),
             text |-> calculateTextSimilarity(a, b) ])

InitScore ==
    /\ \E config \in ScoreConfigs : cem = [config |-> config]
    /\ \E full \in BOOLEAN :
        db = [ artists |-> IF full THEN ScoreArtists ELSE << >>,
               venues |-> IF full THEN ScoreVenues ELSE << >>,
               changed |-> FALSE ]
    /\ mret = [ op |-> "none", query |-> << >>, city |-> << >>, arg |-> << >>,
                result |-> << >> ]
    /\ under = << >>
    /\ lru = NewLRUCache(1, DefaultTTL, 0, TRUE)
    /\ ret = NoCall
    /\ fresh = NotFresh
    /\ now = 0
    /\ nops = 0
    /\ NoTasks
    /\ NoResolver
    /\ NoTimers

NextScore ==
    \/ \E q \in ScoreQueries : ScoreEntities(q)
    \/ \E q \in ScoreQueries : PlainMatchArtists(q)
    \/ \E q \in ScoreQueries, city \in CityFilters : PlainMatchVenues(q, city)
    \/ \E b \in Breakdowns : Weigh(b)
    \/ \E a, b \in Texts : Similarity(a, b)

SpecScore == InitScore /\ [][NextScore]_vars

\* the weights of a list of scored entities, and of a list of matches
WeightsOf(result) == [i \in 1..Len(result) |-> result[i].confidence.weighted]
ConfidencesOf(result) == [i \in 1..Len(result) |-> result[i].confidence]

NonIncreasing(ws) == \A i, j \in 1..Len(ws) : i < j => ws[i] >= ws[j]

\* C14: with a positive maxResults the list returned by scoreEntities is sorted
\* non-increasing by confidence.weighted and is no longer than maxResults; so are the
\* lists of matchArtists and matchVenues by their confidence field
C14_SortedAndBounded ==
    /\ (mret.op = "scoreEntities" /\ cem.config.maxResults > 0) =>
            /\ NonIncreasing(WeightsOf(mret.result))
            /\ Len(mret.result) <= cem.config.maxResults
    /\ (mret.op \in {"matchArtists", "matchVenues"} /\ cem.config.maxResults > 0) =>
            /\ NonIncreasing(ConfidencesOf(mret.result))
            /\ Len(mret.result) <= cem.config.maxResults

\* C14 witness: scoreEntities('abc') returned the second and the third of four
\* candidates, cut to maxResults 2, the best first
C14_Witness ==
    /\ mret.op = "scoreEntities" /\ mret.query = <<"a", "b", "c">>
    /\ cem.config.maxResults = 2 /\ cem.config.minConfidence = 0
    /\ cem.config.fuzzyMatchWeight = 80
    /\ Len(mret.result) = 2
    /\ mret.result[1].entity.id = <<"2">> /\ mret.result[1].confidence.weighted = 100
    /\ mret.result[2].entity.id = <<"1">> /\ mret.result[2].confidence.weighted = 54

\* the weighted score scoreEntities computes for candidate e under the last query
Candidate(e) ==
    calculateConfidence(mret.query, e.name, e.aliases, cem.config).weighted

\* the candidates that reach the threshold, in the order of the list
Qualifying == SelectSeq(db.artists, LAMBDA e : Candidate(e) >= cem.config.minConfidence)

\* every returned entry reaches minConfidence and is a candidate with its score; a
\* candidate that reaches minConfidence is returned, or the list was cut to
\* maxResults and no returned entry scores lower than it
ThresholdApplied ==
    /\ \A i \in 1..Len(mret.result) :
        /\ mret.result[i].confidence.weighted >= cem.config.minConfidence
        /\ \E k \in 1..Len(db.artists) :
            /\ mret.result[i].entity = db.artists[k]
            /\ mret.result[i].confidence.weighted = Candidate(db.artists[k])
    /\ \A k \in 1..Len(Qualifying) :
        \/ \E i \in 1..Len(mret.result) : mret.result[i].entity = Qualifying[k]
        \/ /\ cem.config.maxResults < Len(Qualifying)
           /\ cem.config.maxResults > 0 => Len(mret.result) = cem.config.maxResults
           /\ \A i \in 1..Len(mret.result) :
                mret.result[i].confidence.weighted >= Candidate(Qualifying[k])

\* candidates of equal name: the first, the third and the fourth score alike for
\* every query
TiedArtists ==
    << [id |-> <<"5">>, name |-> <<"a", "b">>, aliases |-> << >>],
       [id |-> <<"6">>, name |-> <<"a", "b", "c">>, aliases |-> << >>],
       [id |-> <<"7">>, name |-> <<"a", "b">>, aliases |-> << >>],
       [id |-> <<"8">>, name |-> <<"a", "b">>, aliases |-> << >>] >>

InitTies ==
    /\ \E config \in ScoreConfigs : cem = [config |-> config]
    /\ db = [artists |-> TiedArtists, venues |-> ScoreVenues, changed |-> FALSE]
    /\ mret = [ op |-> "none", query |-> << >>, city |-> << >>, arg |-> << >>,
                result |-> << >> ]
    /\ under = << >>
    /\ lru = NewLRUCache(1, DefaultTTL, 0, TRUE)
    /\ ret = NoCall
    /\ fresh = NotFresh
    /\ now = 0
    /\ nops = 0
    /\ NoTasks
    /\ NoResolver
    /\ NoTimers

SpecTies == InitTies /\ [][NextScore]_vars

\* the place of a returned entry in the candidate list
PlaceOf(item) == CHOOSE k \in 1..Len(db.artists) : db.artists[k] = item.entity

\* entries of equal weight are in the order of the candidate list
TiesInInputOrder ==
    \A i, j \in 1..Len(mret.result) :
        (i < j /\ mret.result[i].confidence.weighted = mret.result[j].confidence.weighted)
            => PlaceOf(mret.result[i]) < PlaceOf(mret.result[j])

\* a qualifying candidate that was cut comes after every returned entry of its weight
TiesCutFromTheEnd ==
    \A k \in 1..Len(db.artists) :
        ( /\ Candidate(db.artists[k]) >= cem.config.minConfidence
          /\ \A i \in 1..Len(mret.result) : mret.result[i].entity # db.artists[k] )
        => \A i \in 1..Len(mret.result) :
                mret.result[i].confidence.weighted = Candidate(db.artists[k])
                    => PlaceOf(mret.result[i]) < k

\* C32: candidates of equal weighted confidence are returned by scoreEntities in
\* the order of the candidate list, and when the cut to maxResults falls inside
\* a group of equal weight the earlier candidates are the ones kept
C32_TiesByInsertionOrder ==
    (mret.op = "scoreEntities" /\ cem.config.maxResults > 0)
        => (TiesInInputOrder /\ TiesCutFromTheEnd)

\* C32 witness: two candidates of equal weight were returned, and a third of that
\* weight, later in the list, was cut
C32_Witness ==
    /\ mret.op = "scoreEntities" /\ cem.config.maxResults = 2
    /\ Len(mret.result) = 2
    /\ mret.result[1].confidence.weighted = mret.result[2].confidence.weighted
    /\ \E k \in 1..Len(db.artists) :
        /\ Candidate(db.artists[k]) = mret.result[2].confidence.weighted
        /\ k > PlaceOf(mret.result[2])

\* a cut inside a group of equal weight with maxResults 1
C32_CutToOne ==
    /\ mret.op = "scoreEntities" /\ cem.config.maxResults = 1
    /\ Len(mret.result) = 1
    /\ \E k \in 1..Len(db.artists) :
        /\ Candidate(db.artists[k]) = mret.result[1].confidence.weighted
        /\ k > PlaceOf(mret.result[1])

\* C15 as stated, for every query: the threshold decides what scoreEntities returns
C15_ThresholdForEveryQuery == mret.op = "scoreEntities" => ThresholdApplied

\* C15: for a non-empty query every returned entry has weighted >= minConfidence and
\* every candidate with weighted >= minConfidence is returned unless maxResults cuts
\* it; for the empty query nothing is returned
C15_ThresholdForNonEmptyQuery ==
    /\ (mret.op = "scoreEntities" /\ mret.query # << >>) => ThresholdApplied
    /\ (mret.op = "scoreEntities" /\ mret.query = << >>) => mret.result = << >>

\* C15 witness: scoreEntities('abc') with minConfidence 30 returned three of four
\* candidates, the last of them with a score of exactly 30
C15_Witness ==
    /\ mret.op = "scoreEntities" /\ mret.query = <<"a", "b", "c">>
    /\ cem.config.minConfidence = 30 /\ cem.config.maxResults = 10
    /\ cem.config.aliasMatchWeight = 90 /\ cem.config.exactMatchWeight = 100
    /\ Len(mret.result) = 3
    /\ mret.result[3].entity.id = <<"3">> /\ mret.result[3].confidence.weighted = 30

\* the sub-score of highest priority that is not zero, with its weight
Selected(b, config) ==
    IF b.exactMatch > 0 THEN <<b.exactMatch, config.exactMatchWeight>>
    ELSE IF b.aliasMatch > 0 THEN <<b.aliasMatch, config.aliasMatchWeight>>
    ELSE <<b.fuzzyMatch, config.fuzzyMatchWeight>>

\* round(clamp(s * w, 0, 100)) for a weight w in hundredths
RoundClamp(sw) == RoundDiv(Min(10000, Max(0, sw[1] * sw[2])), 100)

\* C16: weighted is round(clamp(s * w, 0, 100)) for the single sub-score s of highest
\* priority that is not zero (exact, then alias, then fuzzy) and its weight w
C16_SingleSubScore ==
    /\ mret.op = "calculateWeightedScore" =>
            mret.result = RoundClamp(Selected(mret.arg[1], cem.config))
    /\ mret.op = "scoreEntities" =>
            \A i \in 1..Len(mret.result) :
                mret.result[i].confidence.weighted =
                    RoundClamp(Selected(mret.result[i].confidence, cem.config))

\* C16 witness: an alias score of 33 and a fuzzy score of 67 under the default
\* weights give 30, the weighted alias score, and not 54
C16_Witness ==
    /\ mret.op = "calculateWeightedScore"
    /\ mret.arg[1] = [exactMatch |-> 0, aliasMatch |-> 33, fuzzyMatch |-> 67,
                            weighted |-> 0]
    /\ cem.config.aliasMatchWeight = 90 /\ cem.config.fuzzyMatchWeight = 80
    /\ mret.result = 30

\* C20: a text is 100 similar to itself, the empty text and a text that normalizes
\* to the empty text included, for the matcher's and for the text normalizer's
\* calculateSimilarity
C20_SelfSimilarity ==
    (mret.op = "calculateSimilarity" /\ mret.arg[1] = mret.query) =>
        /\ mret.result.matcher = 100
        /\ mret.result.text = 100

\* the same, with the empty text left out for the matcher's calculateSimilarity
C20_SelfSimilarityButEmpty ==
    (mret.op = "calculateSimilarity" /\ mret.arg[1] = mret.query) =>
        /\ mret.query # << >> => mret.result.matcher = 100
        /\ mret.result.text = 100

-----------------------------------------------------------------------------
(* Alias dictionary (data/common-aliases) and AliasResolver.  A canonical name *)
(* is never taken apart and is held as one string.                             *)

\* entries <<alias, canonical>> of the built-in tables, in the order of the tables
ARTIST_ALIASES ==
    << <<<<"j", "a", "y", " ", "z">>, "Jay-Z">>,
       <<<<"j", "a", "y", "-", "z">>, "Jay-Z">>,
       <<<<"m", "j">>, "Michael Jackson">> >>

VENUE_ALIASES == << <<<<"m", "s", "g">>, "Madison Square Garden">> >>

CITY_ALIASES ==
    << <<<<"n", "y", "c">>, "New York City">>,
       <<<<"n", "y">>, "New York City">>,
       <<<<"l", "a">>, "Los Angeles">> >>

\* { ...ARTIST_ALIASES, ...VENUE_ALIASES, ...CITY_ALIASES }: no key occurs twice
ALL_ALIASES == ARTIST_ALIASES \o VENUE_ALIASES \o CITY_ALIASES

getAliasesForCategory(category) ==
    CASE category = "artist" -> ARTIST_ALIASES
      [] category = "venue"  -> VENUE_ALIASES
      [] category = "city"   -> CITY_ALIASES
      [] OTHER               -> << >>

\* table[term] || null, as an optional
lookup(table, term) ==
    IF \E i \in 1..Len(table) : table[i][1] = term
    THEN Some(table[CHOOSE i \in 1..Len(table) : table[i][1] = term][2])
    ELSE Undefined

\* resolveAlias of data/common-aliases; category is an optional
resolveAlias(term, category) ==
    lookup(IF category # Undefined THEN getAliasesForCategory(category[1])
           ELSE ALL_ALIASES,
           trim(toLowerCase(term)))

\* an AliasResolutionResult; canonical is an optional, Undefined for null
Resolution(input, canonical, confidence, resolutionType, suggestions) ==
    [ input |-> input, canonical |-> canonical, confidence |-> confidence,
      resolutionType |-> resolutionType, suggestions |-> suggestions ]

\* constructor; customAliases holds the Map's values in insertion order
NewAliasResolver(config) ==
    [ config |-> Merge(DEFAULT_MATCH_CONFIG, config), customAliases |-> << >> ]

\* customAliases.get(key), as an optional
customGet(r, key) ==
    IF \E i \in 1..Len(r.customAliases) : r.customAliases[i].alias = key
    THEN Some(r.customAliases[CHOOSE i \in 1..Len(r.customAliases) :
                                r.customAliases[i].alias = key])
    ELSE Undefined

\* customAliases.set(entry.alias, entry): a key already present keeps its place
customSet(r, entry) ==
    IF customGet(r, entry.alias) # Undefined
    THEN [r EXCEPT !.customAliases =
            [i \in 1..Len(@) |-> IF @[i].alias = entry.alias THEN entry ELSE @[i]]]
    ELSE [r EXCEPT !.customAliases = Append(@, entry)]

\* mutant: the confidence argument is ignored and the default 95 is stored
addCustomAlias_default(r, alias, canonical, category, confidence) ==
    customSet(r, [ alias |-> normalizeForMatching(alias), canonical |-> canonical,
                   category |-> category, confidence |-> 95 ])

\* addCustomAlias(alias, canonical, category, confidence = 95)
addCustomAlias(r, alias, canonical, category, confidence) ==
    customSet(r, [ alias |-> normalizeForMatching(alias), canonical |-> canonical,
                   category |-> category,
                   confidence |-> IF confidence = Undefined THEN 95
                                  ELSE confidence[1] ])

\* removeCustomAlias(alias)
removeCustomAlias(r, alias) ==
    [ r |-> [r EXCEPT !.customAliases =
                SelectSeq(@, LAMBDA e : e.alias # normalizeForMatching(alias))],
      result |-> customGet(r, normalizeForMatching(alias)) # Undefined ]

\* resolveCustomAlias for the entry found under normalizedInput, if any
customResolution(found, normalizedInput, category) ==
    IF found # Undefined /\ (category = Undefined \/ found[1].category = category[1])
    THEN Resolution(normalizedInput, Some(found[1].canonical), found[1].confidence,
                    "exact", << >>)
    ELSE Resolution(normalizedInput, Undefined, 0, "none", << >>)

resolveCustomAlias(r, normalizedInput, category) ==
    customResolution(customGet(r, normalizedInput), normalizedInput, category)

\* resolveExactAlias: the direct lookup, then the lookup of the normalized input
resolveExactAlias(input, category) ==
    IF resolveAlias(input, category) # Undefined
    THEN Resolution(input, resolveAlias(input, category), 100, "exact", << >>)
    ELSE IF resolveAlias(normalizeForMatching(input), category) # Undefined
    THEN Resolution(input, resolveAlias(normalizeForMatching(input), category), 95,
                    "normalized", << >>)
    ELSE Resolution(input, Undefined, 0, "none", << >>)

\* the loop of resolveFuzzyAlias over entries <<alias, canonical>>: bestSoFar is an
\* optional, replaced by an entry at least minSimilarity and more similar than it
RECURSIVE bestMatch(_, _, _, _)
bestMatch(entries, normalizedInput, minSimilarity, bestSoFar) ==
    IF entries = << >> THEN bestSoFar
    ELSE bestMatch(Tail(entries), normalizedInput, minSimilarity,
            IF /\ calculateTextSimilarity(normalizedInput, Head(entries)[1])
                    >= minSimilarity
               /\ (bestSoFar = Undefined \/
                   calculateTextSimilarity(normalizedInput, Head(entries)[1])
                        > bestSoFar[1].similarity)
            THEN Some([ canonical |-> Head(entries)[2],
                        similarity |->
                            calculateTextSimilarity(normalizedInput, Head(entries)[1]) ])
            ELSE bestSoFar)

\* the aliases in scope: the built-in table, or all tables without a category
scope(category) ==
    IF category # Undefined THEN getAliasesForCategory(category[1]) ELSE ALL_ALIASES

\* the custom aliases in scope, as entries <<alias, canonical>>
customScope(r, category) ==
    [i \in 1..Len(SelectSeq(r.customAliases,
                    LAMBDA e : category = Undefined \/ e.category = category[1])) |->
        << SelectSeq(r.customAliases,
              LAMBDA e : category = Undefined \/ e.category = category[1])[i].alias,
           SelectSeq(r.customAliases,
              LAMBDA e : category = Undefined \/ e.category = category[1])[i].canonical >>]

\* mutant: the similarity of the best match is returned as it is
fuzzyResolution_uncapped(input, bestSoFar, minSimilarity) ==
    IF bestSoFar # Undefined /\ bestSoFar[1].similarity >= minSimilarity
    THEN Resolution(input, Some(bestSoFar[1].canonical), bestSoFar[1].similarity,
                    "fuzzy", << >>)
    ELSE Resolution(input, Undefined, 0, "none", << >>)

\* the result of resolveFuzzyAlias for the best match found
fuzzyResolution(input, bestSoFar, minSimilarity) ==
    IF bestSoFar # Undefined /\ bestSoFar[1].similarity >= minSimilarity
    THEN Resolution(input, Some(bestSoFar[1].canonical), Min(bestSoFar[1].similarity, 95),
                    "fuzzy", << >>)
    ELSE Resolution(input, Undefined, 0, "none", << >>)

resolveFuzzyAlias(r, input, category) ==
    fuzzyResolution(input,
        bestMatch(customScope(r, category), normalizeForMatching(input),
                  r.config.minSimilarity,
                  bestMatch(scope(category), normalizeForMatching(input),
                            r.config.minSimilarity, Undefined)),
        r.config.minSimilarity)

\* generateSuggestions: the canonicals of the built-in aliases of similarity 30 up
\* to minSimilarity, the most similar first, at most three
generateSuggestions(r, input, category) ==
    [i \in 1..Len(slice(sortByWeight(SelectSeq(
            [j \in 1..Len(scope(category)) |->
                [ canonical |-> scope(category)[j][2],
                  confidence |-> [weighted |->
                    calculateTextSimilarity(normalizeForMatching(input),
                                            scope(category)[j][1])] ]],
            LAMBDA x : x.confidence.weighted >= 30
                       /\ x.confidence.weighted < r.config.minSimilarity), << >>), 3)) |->
        slice(sortByWeight(SelectSeq(
            [j \in 1..Len(scope(category)) |->
                [ canonical |-> scope(category)[j][2],
                  confidence |-> [weighted |->
                    calculateTextSimilarity(normalizeForMatching(input),
                                            scope(category)[j][1])] ]],
            LAMBDA x : x.confidence.weighted >= 30
                       /\ x.confidence.weighted < r.config.minSimilarity), << >>), 3)[i]
            .canonical]

\* mutant: the built-in tables are consulted before the custom aliases
resolve_builtinFirst(r, input, category) ==
    IF resolveExactAlias(input, category).confidence >= r.config.minConfidence
    THEN resolveExactAlias(input, category)
    ELSE IF resolveCustomAlias(r, normalizeForMatching(input), category).confidence
                >= r.config.minConfidence
    THEN resolveCustomAlias(r, normalizeForMatching(input), category)
    ELSE IF resolveFuzzyAlias(r, input, category).confidence >= r.config.minConfidence
    THEN resolveFuzzyAlias(r, input, category)
    ELSE Resolution(input, Undefined, 0, "none", generateSuggestions(r, input, category))

\* resolve(input, category?)
resolve(r, input, category) ==
    IF resolveCustomAlias(r, normalizeForMatching(input), category).confidence
            >= r.config.minConfidence
    THEN resolveCustomAlias(r, normalizeForMatching(input), category)
    ELSE IF resolveExactAlias(input, category).confidence >= r.config.minConfidence
    THEN resolveExactAlias(input, category)
    ELSE IF resolveFuzzyAlias(r, input, category).confidence >= r.config.minConfidence
    THEN resolveFuzzyAlias(r, input, category)
    ELSE Resolution(input, Undefined, 0, "none", generateSuggestions(r, input, category))

\* bound on the calls made to one resolver
MaxAliasCalls == 3

Categories == {"artist", "venue", "city"}

\* the resolvers constructed: minConfidence 0, the default 70, and 96
AliasConfigs == {[minConfidence |-> 0], << >>, [minConfidence |-> 96]}

\* aliases added: a built-in key, a text that normalizes to it, and a new one
AddedAliases == {<<"n", "y", "c">>, <<"T", "h", "e", " ", "n", "y", "c">>, <<"z", "z">>}

AddedCategories == {"city", "artist"}

\* confidence arguments: left out, below, at and above the default threshold
AddedConfidences == {Undefined, Some(50), Some(70), Some(100)}

\* every key of the tables
AliasKeys == {ALL_ALIASES[i][1] : i \in 1..Len(ALL_ALIASES)}

\* inputs resolved: every key, texts near a key, an unknown text, the empty text
ResolveInputs == AliasKeys \cup AddedAliases \cup {<<"n", "y", "x">>, <<" ", "N", "Y", "C">>, << >>}

ResolveCategories == {Undefined} \cup {Some(k) : k \in Categories}

\* a call of the resolver: r is the resolver after it, the record is what was
\* called and what it returned
AliasCall(r, op, input, canonical, category, confidence, result) ==
    /\ nops < MaxAliasCalls
    /\ nops' = nops + 1
    /\ resolver' = r
    /\ rret' = [ op |-> op, input |-> input, canonical |-> canonical,
                 category |-> category, confidence |-> confidence,
                 result |-> result ]
    /\ UNCHANGED <<lru, now, ret, fresh, cem, db, mret, under, tasks, timers, destroyed>>

AddCustomAlias(alias, canonical, category, confidence) ==
    AliasCall(addCustomAlias(resolver, alias, canonical, category, confidence),
              "addCustomAlias", alias, Some(canonical), Some(category), confidence,
              << >>)

RemoveCustomAlias(alias) ==
    AliasCall(removeCustomAlias(resolver, alias).r,
              "removeCustomAlias", alias, Undefined, Undefined, Undefined,
              <<removeCustomAlias(resolver, alias).result>>)

Resolve(input, category) ==
    AliasCall(resolver, "resolve", input, Undefined, category, Undefined,
              <<resolve(resolver, input, category)>>)

InitAlias ==
    /\ \E config \in AliasConfigs : resolver = NewAliasResolver(config)
    /\ rret = [ op |-> "none", input |-> << >>, canonical |-> Undefined,
                category |-> Undefined, confidence |-> Undefined, result |-> << >> ]
    /\ lru = NewLRUCache(1, DefaultTTL, 0, TRUE)
    /\ ret = NoCall
    /\ fresh = NotFresh
    /\ now = 0
    /\ nops = 0
    /\ NoMatcher
    /\ NoTasks
    /\ NoTimers

NextAlias ==
    \/ \E a \in AddedAliases, k \in AddedCategories, x \in AddedConfidences :
            AddCustomAlias(a, "Custom", k, x)
    \/ \E a \in AddedAliases : RemoveCustomAlias(a)
    \/ \E input \in ResolveInputs, k \in ResolveCategories : Resolve(input, k)

SpecAlias == InitAlias /\ [][NextAlias]_vars

\* a step in which resolve(a, k) follows addCustomAlias(a, c, k, x) at once
ResolvedAfterAdd ==
    /\ rret.op = "addCustomAlias"
    /\ rret.confidence # Undefined
    /\ rret'.op = "resolve"
    /\ rret'.input = rret.input
    /\ rret'.category = rret.category

\* the resolution is the custom alias just added, with its confidence
ReturnsAdded ==
    /\ rret'.result[1].canonical = rret.canonical
    /\ rret'.result[1].resolutionType = "exact"
    /\ rret'.result[1].confidence = rret.confidence[1]

\* C17 as stated: for every alias a, canonical c, category k and confidence x,
\* resolve(a, k) right after addCustomAlias(a, c, k, x) returns c, 'exact' and
\* confidence x.
C17_AddedResolvesForEveryConfidence ==
    [][ResolvedAfterAdd => ReturnsAdded]_vars

\* C17 amended: for every alias a, canonical c, category k and confidence x that
\* is at least config.minConfidence, resolve(a, k) right after
\* addCustomAlias(a, c, k, x) returns c, 'exact' and confidence x.
C17_AddedResolvesAboveThreshold ==
    [][(ResolvedAfterAdd /\ rret.confidence[1] >= resolver.config.minConfidence)
            => ReturnsAdded]_vars

\* the second call of a resolver resolved the only custom alias, added by the
\* first call with a confidence other than the default, and returned it
C17_Witness ==
    /\ nops = 2
    /\ rret.op = "resolve"
    /\ rret.category # Undefined
    /\ Len(resolver.customAliases) = 1
    /\ resolver.customAliases[1].alias = normalizeForMatching(rret.input)
    /\ resolver.customAliases[1].category = rret.category[1]
    /\ resolver.customAliases[1].confidence = 100
    /\ rret.result[1].canonical = Some("Custom")
    /\ rret.result[1].resolutionType = "exact"
    /\ rret.result[1].confidence = 100

\* the first of the tiers whose confidence is at least minConfidence, or the
\* result of no match when there is none
FirstClearing(tiers, minConfidence, res) ==
    IF \E i \in 1..Len(tiers) : tiers[i].confidence >= minConfidence
    THEN res = tiers[CHOOSE i \in 1..Len(tiers) :
                        /\ tiers[i].confidence >= minConfidence
                        /\ \A j \in 1..(i - 1) : tiers[j].confidence < minConfidence]
    ELSE /\ res.canonical = Undefined
         /\ res.resolutionType = "none"
         /\ res.confidence = 0

\* a custom alias of at least minConfidence and a built-in alias both match the
\* input exactly
BothMatch(r, input, category) ==
    /\ customGet(r, normalizeForMatching(input)) # Undefined
    /\ category = Undefined
        \/ customGet(r, normalizeForMatching(input))[1].category = category[1]
    /\ customGet(r, normalizeForMatching(input))[1].confidence >= r.config.minConfidence
    /\ lookup(scope(category), input) # Undefined

\* C18: resolve returns the result of the first of the tiers custom, built-in
\* exact/normalized, fuzzy whose confidence is at least config.minConfidence;
\* when a custom alias and a built-in alias both match the input exactly, the
\* custom alias's canonical and confidence are returned; when no tier clears
\* minConfidence the result has canonical null, type 'none' and confidence 0.
C18_TierOrder ==
    rret.op = "resolve" =>
        /\ FirstClearing(<< resolveCustomAlias(resolver,
                                normalizeForMatching(rret.input), rret.category),
                            resolveExactAlias(rret.input, rret.category),
                            resolveFuzzyAlias(resolver, rret.input, rret.category) >>,
                         resolver.config.minConfidence, rret.result[1])
        /\ BothMatch(resolver, rret.input, rret.category) =>
            /\ rret.result[1].canonical =
                Some(customGet(resolver, normalizeForMatching(rret.input))[1].canonical)
            /\ rret.result[1].confidence =
                customGet(resolver, normalizeForMatching(rret.input))[1].confidence

\* a custom alias and a built-in alias of another canonical both matched the
\* input, and the custom one was returned
C18_Witness ==
    /\ rret.op = "resolve"
    /\ BothMatch(resolver, rret.input, rret.category)
    /\ lookup(scope(rret.category), rret.input) # Some("Custom")
    /\ rret.result[1].canonical = Some("Custom")
    /\ resolver.config.minConfidence > 0

\* no tier cleared minConfidence and the result is that of no match
C18_NoneReached ==
    /\ rret.op = "resolve"
    /\ resolver.config.minConfidence > 0
    /\ rret.result[1].resolutionType = "none"
    /\ rret.result[1].suggestions # << >>

\* the input is a key of the built-in table of the category given, and no custom
\* alias of that category is stored under it
BuiltInKeyResolved ==
    /\ rret.op = "resolve"
    /\ rret.category # Undefined
    /\ lookup(getAliasesForCategory(rret.category[1]), rret.input) # Undefined
    /\ ~ \E i \in 1..Len(resolver.customAliases) :
            /\ resolver.customAliases[i].alias = normalizeForMatching(rret.input)
            /\ resolver.customAliases[i].category = rret.category[1]

\* C19: with no conflicting custom alias, for every built-in alias key a of
\* category k with canonical c, resolve(a, k) returns c, 'exact' and 100.
C19_BuiltInKeyExact ==
    BuiltInKeyResolved =>
        /\ rret.result[1].canonical =
            lookup(getAliasesForCategory(rret.category[1]), rret.input)
        /\ rret.result[1].resolutionType = "exact"
        /\ rret.result[1].confidence = 100

\* the same for the resolvers whose minConfidence is above 0
C19_BuiltInKeyExactAboveZero ==
    resolver.config.minConfidence > 0 => C19_BuiltInKeyExact

\* a built-in key was resolved by a resolver of minConfidence 0
C19_ZeroThreshold ==
    BuiltInKeyResolved /\ resolver.config.minConfidence = 0

\* the best fuzzy candidate for the input of the last resolve
BestFuzzy ==
    bestMatch(customScope(resolver, rret.category), normalizeForMatching(rret.input),
              resolver.config.minSimilarity,
              bestMatch(scope(rret.category), normalizeForMatching(rret.input),
                        resolver.config.minSimilarity, Undefined))

\* C33: every result of resolutionType 'fuzzy' has confidence <= 95, whatever
\* the similarity of the best fuzzy candidate; a confidence of 100 is returned
\* with resolutionType 'exact' only
C33_FuzzyCappedAt95 ==
    rret.op = "resolve" =>
        /\ rret.result[1].resolutionType = "fuzzy" => rret.result[1].confidence <= 95
        /\ resolveFuzzyAlias(resolver, rret.input, rret.category).confidence <= 95
        /\ rret.result[1].confidence = 100 => rret.result[1].resolutionType = "exact"

\* C33 witness: resolve returned a fuzzy result of confidence 95 for a best
\* candidate of similarity 100
C33_Witness ==
    /\ rret.op = "resolve"
    /\ rret.result[1].resolutionType = "fuzzy" /\ rret.result[1].confidence = 95
    /\ BestFuzzy # Undefined /\ BestFuzzy[1].similarity = 100

\* a confidence of 100 was returned, for a built-in key
C33_ExactHundred ==
    /\ rret.op = "resolve"
    /\ rret.result[1].confidence = 100 /\ rret.result[1].resolutionType = "exact"
    /\ resolver.customAliases = << >>

\* the step adds a custom alias in category k
Adds(k) == nops' = nops + 1 /\ rret'.op = "addCustomAlias" /\ rret'.category = Some(k)

\* the step leaves what resolve returns in the categories other than k unchanged
OtherCategoriesKept(k) ==
    \A input \in ResolveInputs, other \in Categories \ {k} :
        resolve(resolver', input, Some(other)) = resolve(resolver, input, Some(other))

\* C34: custom alias keys are unique per category: adding an alias in one
\* category leaves resolution in the other categories unchanged, so after
\* addCustomAlias(a, c1, 'artist') and addCustomAlias(a, c2, 'venue'),
\* resolve(a, 'artist') still returns c1
C34_KeysPerCategory ==
    [][\A k \in Categories : Adds(k) => OtherCategoriesKept(k)]_vars

\* what the resolver does instead: the other categories are unchanged when the
\* key is not held by a custom alias of another category
C34_KeysGlobal ==
    [][\A k \in Categories :
        ( /\ Adds(k)
          /\ \/ customGet(resolver, normalizeForMatching(rret'.input)) = Undefined
             \/ customGet(resolver, normalizeForMatching(rret'.input))[1].category = k )
        => OtherCategoriesKept(k)]_vars

\* an alias added under a key of another category took that key over: resolve
\* in the first category finds nothing
C34_KeyTakenOver ==
    /\ nops = 3 /\ rret.op = "resolve"
    /\ rret.input = <<"z", "z">> /\ rret.category = Some("artist")
    /\ rret.result[1].canonical = Undefined
    /\ Len(resolver.customAliases) = 1
    /\ resolver.customAliases[1].alias = <<"z", "z">>
    /\ resolver.customAliases[1].category = "city"

-----------------------------------------------------------------------------
(* EntityMatcher and CachedEntityMatcher on queries and lists with nothing to  *)
(* match.  The plain matcher is the cached matcher's superclass part: the same *)
(* config, no cache.                                                           *)

\* '', ' ' and '  ' are blank (null and undefined are held as ''); 'Ab ' is not
EdgeQueries == { << >>, <<" ">>, <<" ", " ">>, <<"A", "b", " ">> }

\* the thresholds the matcher is constructed with: the default, and 0
EdgeConfigs == { << >>, [minConfidence |-> 0] }

\* a call of the EntityMatcher methods, which leave the cache alone
Plain(op, query, city, result) ==
    Returned(op, query, city, << >>, [x |-> Ctx(cem, under), result |-> result])

EntityMatchArtists(query) ==
    Plain("EntityMatcher.matchArtists", query, << >>,
          matchArtists(cem.config, query, db.artists))

EntityMatchVenues(query, cityFilter) ==
    Plain("EntityMatcher.matchVenues", query, cityFilter,
          matchVenues(cem.config, query, db.venues, cityFilter))

EntityFindBestArtist(query) ==
    Plain("EntityMatcher.findBestArtist", query, << >>,
          findBestArtist(cem.config, query, db.artists))

EntityFindBestVenue(query, cityFilter) ==
    Plain("EntityMatcher.findBestVenue", query, cityFilter,
          findBestVenue(cem.config, query, db.venues, cityFilter))

InitEdge ==
    /\ \E config \in EdgeConfigs : cem = NewCachedEntityMatcher(config, cacheConfig)
    /\ \E l \in ListChoices :
            db = [artists |-> l.artists, venues |-> l.venues, changed |-> FALSE]
    /\ mret = NoMatch
    /\ under = [artist |-> << >>, venue |-> << >>]
    /\ lru = NewLRUCache(1, DefaultTTL, 0, TRUE)
    /\ ret = NoCall
    /\ fresh = NotFresh
    /\ now = 0
    /\ nops = 0
    /\ NoTasks
    /\ NoResolver
    /\ NoTimers

NextEdge ==
    \/ \E q \in EdgeQueries : EntityMatchArtists(q)
    \/ \E q \in EdgeQueries, city \in CityFilters : EntityMatchVenues(q, city)
    \/ \E q \in EdgeQueries : EntityFindBestArtist(q)
    \/ \E q \in EdgeQueries, city \in CityFilters : EntityFindBestVenue(q, city)
    \/ \E q \in EdgeQueries : MatchArtists(q)
    \/ \E q \in EdgeQueries, city \in CityFilters : MatchVenues(q, city)
    \/ \E q \in EdgeQueries : FindBestArtist(q)
    \/ \E q \in EdgeQueries, city \in CityFilters : FindBestVenue(q, city)

SpecEdge == InitEdge /\ [][NextEdge]_vars

ArtistCalls ==
    {"matchArtists", "findBestArtist",
     "EntityMatcher.matchArtists", "EntityMatcher.findBestArtist"}

VenueCalls ==
    {"matchVenues", "findBestVenue",
     "EntityMatcher.matchVenues", "EntityMatcher.findBestVenue"}

\* the step completes a matching call that has nothing to match: a blank query,
\* or an empty list of candidates of its kind
NothingToMatch ==
    /\ nops' = nops + 1
    /\ \/ Blank(mret'.query)
       \/ mret'.op \in ArtistCalls /\ db.artists = << >>
       \/ mret'.op \in VenueCalls /\ db.venues = << >>

\* C21: matchArtists and matchVenues of EntityMatcher and CachedEntityMatcher
\* return an empty array for an empty, whitespace-only or null query and for an
\* empty candidate list, and findBestArtist and findBestVenue return null (the
\* empty list of at most one match); the caches are left as they were
C21_NothingToMatch ==
    [][NothingToMatch => (mret'.result = << >> /\ cem' = cem)]_vars

\* C21 witness: a whitespace-only query was matched against a list of artists by
\* a matcher that accepts every score, and nothing was returned or stored
C21_Witness ==
    /\ mret.op = "EntityMatcher.matchArtists"
    /\ mret.query = <<" ", " ">>
    /\ db.artists # << >>
    /\ cem.config.minConfidence = 0
    /\ mret.result = << >>

\* a query that is not blank was matched against a list that is not empty
C21_SomethingMatched ==
    /\ mret.op \in ArtistCalls
    /\ mret.result # << >>

-----------------------------------------------------------------------------
(* MatcherCache: invalidation and warming *)

\* keys.forEach(key => cache.delete(key)) over the set ks of keys
RECURSIVE deleteEach(_, _)
deleteEach(c, ks) ==
    IF ks = {} THEN c
    ELSE deleteEach(delete(c, CHOOSE k \in ks : TRUE).c, ks \ {CHOOSE k \in ks : TRUE})

\* the loop of invalidateEntity on the partition c
invalidated(c, entityId) ==
    deleteEach(c, { key \in keys(c) : includes(key, entityId) })

\* mutant: every entry of the partition is removed
invalidateEntity_all(mc, entityType, entityId) ==
    IF entityType = "artist"
    THEN [mc EXCEPT !.artistCache = deleteEach(mc.artistCache, keys(mc.artistCache))]
    ELSE [mc EXCEPT !.venueCache = deleteEach(mc.venueCache, keys(mc.venueCache))]

\* MatcherCache.invalidateEntity
invalidateEntity(mc, entityType, entityId) ==
    IF entityType = "artist"
    THEN [mc EXCEPT !.artistCache = invalidated(@, entityId)]
    ELSE [mc EXCEPT !.venueCache = invalidated(@, entityId)]

\* CachedEntityMatcher.invalidateCache
invalidateCache(m, entityType, entityId) ==
    [m EXCEPT !.cache = invalidateEntity(@, entityType, entityId)]

\* MatcherCache.setAliases
setAliases(mc, entityId, aliases, t) ==
    [mc EXCEPT !.aliasCache = set(@, entityId, aliases, Undefined, t)]

\* the MatchConfig literal under which warmCache stores its results
WARM_MATCH_CONFIG ==
    [ minSimilarity |-> 60, minConfidence |-> 70, maxResults |-> 10,
      exactMatchWeight |-> 100, fuzzyMatchWeight |-> 80, aliasMatchWeight |-> 90 ]

\* the matcher passed to warmCache throws for the pairs <<kind, query>> in throws;
\* the artist half of the try block throws for query
artistThrows(query, artists, throws) ==
    artists # << >> /\ <<"artist", query>> \in throws

\* the venue half of the try block is reached and throws for query
venueThrows(query, artists, venues, throws) ==
    /\ ~ artistThrows(query, artists, throws)
    /\ venues # << >> /\ <<"venue", query>> \in throws

\* warmCache, the artist half for one query: computed by the matcher, stored
\* under the literal config
warmArtists(x, query, artists, t) ==
    [x EXCEPT !.m.cache = setArtistMatches(@, query, WARM_MATCH_CONFIG,
                                matchArtists(x.m.config, query, artists), t),
              !.under.artist = MapSet(@, generateArtistCacheKey(query, WARM_MATCH_CONFIG),
                                      x.m.config),
              !.invoked = @ + 1]

\* warmCache, the venue half for one query
warmVenues(x, query, venues, t) ==
    [x EXCEPT !.m.cache = setVenueMatches(@, query, WARM_MATCH_CONFIG,
                                matchVenues(x.m.config, query, venues, << >>), << >>, t),
              !.under.venue = MapSet(@, generateVenueCacheKey(query, WARM_MATCH_CONFIG,
                                                              << >>),
                                     x.m.config),
              !.invoked = @ + 1]

\* warmCache, the callback for one query: try { artists; venues } catch { warn }
warmQuery(x, query, artists, venues, throws, t) ==
    IF artistThrows(query, artists, throws) THEN x
    ELSE IF venueThrows(query, artists, venues, throws)
    THEN (IF artists # << >> THEN warmArtists(x, query, artists, t) ELSE x)
    ELSE IF venues # << >>
    THEN warmVenues(IF artists # << >> THEN warmArtists(x, query, artists, t) ELSE x,
                    query, venues, t)
    ELSE (IF artists # << >> THEN warmArtists(x, query, artists, t) ELSE x)

\* mutant: a query whose warming throws ends the warming
RECURSIVE warmFrom_abort(_, _, _, _, _, _)
warmFrom_abort(x, queries, artists, venues, throws, t) ==
    IF queries = << >> THEN x
    ELSE IF artistThrows(Head(queries), artists, throws)
            \/ venueThrows(Head(queries), artists, venues, throws)
    THEN warmQuery(x, Head(queries), artists, venues, throws, t)
    ELSE warmFrom_abort(warmQuery(x, Head(queries), artists, venues, throws, t),
                        Tail(queries), artists, venues, throws, t)

\* warmCache, warmingQueries.map: the callbacks run one after the other
RECURSIVE warmFrom(_, _, _, _, _, _)
warmFrom(x, queries, artists, venues, throws, t) ==
    IF queries = << >> THEN x
    ELSE warmFrom(warmQuery(x, Head(queries), artists, venues, throws, t),
                  Tail(queries), artists, venues, throws, t)

\* MatcherCache.warmCache with the matcher of CachedEntityMatcher.warmCache; the
\* promise of Promise.allSettled is fulfilled whatever the callbacks did
warmCache(x, artists, venues, throws, t) ==
    [ x |-> IF x.m.cache.config.enableWarming
            THEN warmFrom(x, x.m.cache.config.warmingQueries, artists, venues, throws, t)
            ELSE x,
      result |-> "fulfilled" ]

-----------------------------------------------------------------------------
(* The cached matcher under warming, matching and invalidation *)

\* warmingQueries of the cache config
WarmingQueries == << <<"a", "b">>, <<"b">> >>

\* the cacheConfig of a matcher with room for every warming query: partitions of
\* 5, 4 and 1 entries
WarmCacheConfig(enableWarming) ==
    [ maxSize |-> 10, artistCacheTTL |-> 2, venueCacheTTL |-> 1, aliasCacheTTL |-> 3,
      cleanupInterval |-> 0, enableMetrics |-> TRUE, enableWarming |-> enableWarming,
      warmingQueries |-> WarmingQueries ]

\* the MatchConfig of the matcher: the default, one with the default's hash, and
\* one with another hash
WarmConfigs == { << >>, [maxResults |-> 1], [minConfidence |-> 95] }

\* the queries matched: the warming queries and a query with the key of the first
WarmQueries == { <<"a", "b">>, <<"b">>, <<"A", "b", " ">> }

\* the pairs for which the matcher passed to warmCache throws
ThrowSets ==
    { {}, {<<"artist", <<"a", "b">>>>}, {<<"venue", <<"a", "b">>>>}, {<<"venue", <<"b">>>>},
      {<<"artist", <<"a", "b">>>>, <<"artist", <<"b">>>>} }

\* entity ids: in the key of one query, in every artist key, in every key, in no
\* key, and the id of the first artist and of the first venue of the lists
EntityIds == { <<"a", "b">>, <<"a">>, << >>, <<"z">>, <<"1">> }

\* a call on the cache that is no matching call
CacheCall(m, call) ==
    /\ nops < MaxCalls
    /\ nops' = nops + 1
    /\ cem' = m
    /\ under' = Prune(under, m)
    /\ mret' = call
    /\ UNCHANGED <<db, now, lru, ret, fresh, tasks, resolver, rret, timers, destroyed>>

InvalidateCache(entityType, entityId) ==
    CacheCall(invalidateCache(cem, entityType, entityId),
              [ op |-> "invalidateCache", entityType |-> entityType,
                entityId |-> entityId ])

SetAliases(entityId, aliases) ==
    CacheCall([cem EXCEPT !.cache = setAliases(@, entityId, aliases, now)],
              [ op |-> "setAliases", entityId |-> entityId, aliases |-> aliases ])

WarmCache(throws) ==
    /\ nops < MaxCalls
    /\ nops' = nops + 1
    /\ cem' = warmCache(Ctx(cem, under), db.artists, db.venues, throws, now).x.m
    /\ under' = Prune(warmCache(Ctx(cem, under), db.artists, db.venues, throws, now).x.under,
                      cem')
    /\ mret' = [ op |-> "warmCache", throws |-> throws, config |-> cem.config,
                 result |-> warmCache(Ctx(cem, under), db.artists, db.venues, throws,
                                      now).result ]
    /\ UNCHANGED <<db, now, lru, ret, fresh, tasks, resolver, rret, timers, destroyed>>

InitWarm ==
    /\ \E config \in WarmConfigs, w \in BOOLEAN :
        /\ cem = NewCachedEntityMatcher(config, WarmCacheConfig(w))
        /\ timers = matcherTimers(cem.cache)
    /\ destroyed = FALSE
    /\ \E l \in ListChoices :
            db = [artists |-> l.artists, venues |-> l.venues, changed |-> FALSE]
    /\ mret = NoMatch
    /\ under = [artist |-> << >>, venue |-> << >>]
    /\ lru = NewLRUCache(1, DefaultTTL, 0, TRUE)
    /\ ret = NoCall
    /\ fresh = NotFresh
    /\ now = 0
    /\ nops = 0
    /\ NoTasks
    /\ NoResolver

NextWarm ==
    \/ \E throws \in ThrowSets : WarmCache(throws)
    \/ \E q \in WarmQueries : MatchArtists(q)
    \/ \E q \in WarmQueries, city \in CityFilters : MatchVenues(q, city)
    \/ \E id \in EntityIds : SetAliases(id, << <<"a", "b">> >>)
    \/ \E type \in {"artist", "venue"}, id \in EntityIds : InvalidateCache(type, id)

SpecWarm == InitWarm /\ [][NextWarm]_vars

\* the partition invalidateEntity works on, and the one of the other entity type
PartitionOf(mc, entityType) ==
    IF entityType = "artist" THEN mc.artistCache ELSE mc.venueCache

OtherPartitionOf(mc, entityType) ==
    IF entityType = "artist" THEN mc.venueCache ELSE mc.artistCache

\* the step completes the call op on the matcher or its cache
CacheCalls(op) == nops' = nops + 1 /\ mret'.op = op

\* C22: invalidateEntity(type, id) removes from the partition of that type every
\* entry whose key contains id, removes no other entry of it, and leaves the
\* other two partitions unchanged
C22_InvalidateEntity ==
    [][CacheCalls("invalidateCache") =>
        /\ DOMAIN PartitionOf(cem'.cache, mret'.entityType).cache =
            { key \in DOMAIN PartitionOf(cem.cache, mret'.entityType).cache :
                ~ includes(key, mret'.entityId) }
        /\ \A key \in DOMAIN PartitionOf(cem'.cache, mret'.entityType).cache :
                PartitionOf(cem'.cache, mret'.entityType).cache[key] =
                    PartitionOf(cem.cache, mret'.entityType).cache[key]
        /\ OtherPartitionOf(cem'.cache, mret'.entityType) =
                OtherPartitionOf(cem.cache, mret'.entityType)
        /\ cem'.cache.aliasCache = cem.cache.aliasCache]_vars

\* C22 witness: of the two artist entries stored by two lookups that missed, the
\* invalidation of 'ab' removed the one of the query 'ab' and kept the one of 'b'
C22_Witness ==
    /\ mret.op = "invalidateCache"
    /\ mret.entityType = "artist" /\ mret.entityId = <<"a", "b">>
    /\ cem.cache.artistCache.metrics.misses = 2
    /\ keys(cem.cache.artistCache) = {generateArtistCacheKey(<<"b">>, cem.config)}

\* an invalidation of venue entries left the artist and the alias entries alone
C22_OthersKept ==
    /\ mret.op = "invalidateCache"
    /\ mret.entityType = "venue" /\ mret.entityId = << >>
    /\ keys(cem.cache.venueCache) = {}
    /\ keys(cem.cache.artistCache) # {}
    /\ keys(cem.cache.aliasCache) # {}

\* the step is a matchArtists or matchVenues on a warming query, without a city
\* filter, right after a warmCache of non-empty lists that met no failure
MatchAfterWarm ==
    /\ mret.op = "warmCache" /\ mret.throws = {}
    /\ cem.cache.config.enableWarming
    /\ db.artists # << >> /\ db.venues # << >>
    /\ CacheCalls("matchArtists") \/ CacheCalls("matchVenues")
    /\ mret'.city = << >>
    /\ \E i \in 1..Len(cem.cache.config.warmingQueries) :
            mret'.query = cem.cache.config.warmingQueries[i]

\* the call was answered from the cache: no result was computed
ServedFromCache == mret'.invoked = 0 /\ mret'.from # {}

\* C23: after warmCache(artists, venues) with warming enabled and non-empty
\* lists, a following matchArtists(q, artists) or matchVenues(q, venues) is
\* served from the cache for every warming query q, for every MatchConfig of the
\* matcher
C23_WarmedIsHit ==
    [][MatchAfterWarm => ServedFromCache]_vars

\* the same for the matchers whose config has the hash of the config literal
\* that warmCache stores under
C23_WarmedIsHitForLiteralHash ==
    [][(MatchAfterWarm /\ hashConfig(cem.config) = hashConfig(WARM_MATCH_CONFIG))
            => ServedFromCache]_vars

\* when the matcher's config has another hash and warmCache was the first call,
\* the matching call computes
C23_WarmedIsMissOtherwise ==
    [][(MatchAfterWarm /\ nops = 1
            /\ hashConfig(cem.config) # hashConfig(WARM_MATCH_CONFIG))
            => (mret'.invoked = 1 /\ mret'.from = {})]_vars

\* what warmCache stores for query when its warming does not throw
WarmedArtists(query) ==
    (db.artists # << >> /\ ~ artistThrows(query, db.artists, mret'.throws)) =>
        /\ generateArtistCacheKey(query, WARM_MATCH_CONFIG)
                \in keys(cem'.cache.artistCache)
        /\ cem'.cache.artistCache.cache[
                generateArtistCacheKey(query, WARM_MATCH_CONFIG)].value
                = matchArtists(cem.config, query, db.artists)

WarmedVenues(query) ==
    ( /\ db.venues # << >>
      /\ ~ artistThrows(query, db.artists, mret'.throws)
      /\ ~ venueThrows(query, db.artists, db.venues, mret'.throws) ) =>
        /\ generateVenueCacheKey(query, WARM_MATCH_CONFIG, << >>)
                \in keys(cem'.cache.venueCache)
        /\ cem'.cache.venueCache.cache[
                generateVenueCacheKey(query, WARM_MATCH_CONFIG, << >>)].value
                = matchVenues(cem.config, query, db.venues, << >>)

\* C24: when the warming of one query throws, the failure is confined to that
\* query: every other warming query is computed and stored, and warmCache
\* completes without rejecting
C24_WarmingIsolated ==
    [][(CacheCalls("warmCache") /\ cem.cache.config.enableWarming) =>
        /\ mret'.result = "fulfilled"
        /\ \A i \in 1..Len(cem.cache.config.warmingQueries) :
            /\ WarmedArtists(cem.cache.config.warmingQueries[i])
            /\ WarmedVenues(cem.cache.config.warmingQueries[i])]_vars

\* C24 witness: the warming of the first query threw, nothing is stored for it,
\* and the second query is stored in both partitions
C24_Witness ==
    /\ nops = 1
    /\ mret.op = "warmCache" /\ mret.throws = {<<"artist", <<"a", "b">>>>}
    /\ mret.result = "fulfilled"
    /\ keys(cem.cache.artistCache) = {generateArtistCacheKey(<<"b">>, WARM_MATCH_CONFIG)}
    /\ keys(cem.cache.venueCache) = {generateVenueCacheKey(<<"b">>, WARM_MATCH_CONFIG, << >>)}

\* the ids of the matches in the cached result lists of partition c
CachedIds(c) ==
    UNION { { c.cache[key].value[i].id : i \in 1..Len(c.cache[key].value) } :
            key \in DOMAIN c.cache }

\* C36: after invalidateCache(type, id) no cached result list in the partition
\* of that type contains a match whose id is id, so a later matchArtists or
\* matchVenues never returns a cached result from before that includes the entity
C36_InvalidatedEntityGone ==
    [][CacheCalls("invalidateCache") =>
        mret'.entityId \notin CachedIds(PartitionOf(cem'.cache, mret'.entityType))]_vars

\* what invalidateCache does instead: whether an entry goes is decided by its
\* key, whatever its result list holds
C36_DecidedByKey ==
    [][CacheCalls("invalidateCache") =>
        \A key \in DOMAIN PartitionOf(cem.cache, mret'.entityType).cache :
            key \in DOMAIN PartitionOf(cem'.cache, mret'.entityType).cache
                <=> ~ includes(key, mret'.entityId)]_vars

\* the second half of C36 on its own: the matching call right after
\* invalidateCache(type, id) returns no cached result that includes the entity
C36_NoStaleResult ==
    [][( /\ mret.op = "invalidateCache"
         /\ \/ mret.entityType = "artist" /\ CacheCalls("matchArtists")
            \/ mret.entityType = "venue" /\ CacheCalls("matchVenues")
         /\ ServedFromCache )
        => \A i \in 1..Len(mret'.result) : mret'.result[i].id # mret.entityId]_vars

-----------------------------------------------------------------------------
(* The cached matcher and a caller that changes what it was given.  The array  *)
(* a matching call returns is the array held by the cache entry: on a miss the *)
(* computed array is stored and returned, on a hit entry.value is returned.    *)
(* A change the caller makes right after the call is a change of the entry.    *)

\* the cache key of the last matching call
LastKey ==
    IF mret.op = "matchArtists"
    THEN generateArtistCacheKey(mret.query, mret.config)
    ELSE generateVenueCacheKey(mret.query, mret.config, mret.city)

\* the partition of the last matching call, with the value of key replaced
withValue(mc, op, key, value) ==
    IF op = "matchArtists"
    THEN [mc EXCEPT !.artistCache.cache[key].value = value]
    ELSE [mc EXCEPT !.venueCache.cache[key].value = value]

\* what a caller does to the array: result.pop(), result[0].name = 'x',
\* result[0].confidence = 0
Mutations(result) ==
    { SubSeq(result, 1, Len(result) - 1),
      [result EXCEPT ![1].name = <<"x">>],
      [result EXCEPT ![1].confidence = 0] }

\* the caller changes the array returned by the matching call it has just made
MutateResult(new) ==
    /\ mret.op \in {"matchArtists", "matchVenues"}
    /\ mret.result # << >>
    /\ new # mret.result
    /\ LastKey \in DOMAIN PartitionOf(cem.cache, IF mret.op = "matchArtists"
                                                  THEN "artist" ELSE "venue").cache
    /\ cem' = [cem EXCEPT !.cache = withValue(@, mret.op, LastKey, new)]
    /\ mret' = [mret EXCEPT !.op = "mutate", !.result = new]
    /\ UNCHANGED <<under, db, nops, now, lru, ret, fresh, tasks, resolver, rret, timers, destroyed>>

NextShared ==
    \/ \E q \in Queries : MatchArtists(q)
    \/ \E q \in Queries, city \in CityFilters : MatchVenues(q, city)
    \/ \E new \in Mutations(mret.result) : MutateResult(new)
    \/ Tick

SpecShared == InitM /\ [][NextShared]_vars

\* a hit returns the list the matcher computes for the call
HitAsComputed ==
    /\ (CacheCalls("matchArtists") /\ ServedFromCache) =>
            mret'.result = matchArtists(cem.config, mret'.query, db.artists)
    /\ (CacheCalls("matchVenues") /\ ServedFromCache) =>
            mret'.result = matchVenues(cem.config, mret'.query, db.venues, mret'.city)

\* C35: a cached result is an immutable snapshot: whatever a caller does to the
\* array or the match objects it received from matchArtists or matchVenues,
\* later cache hits for the same key return the result as originally computed
C35_SnapshotImmutable == [][HitAsComputed]_vars

\* what the matcher does instead: the change is in the cache entry, and the
\* next hit returns the changed list
C35_SharedWithCaller ==
    [][\A q \in Queries :
        (mret.op = "mutate" /\ mret.query = q /\ mret.city = << >>
            /\ LastKey \in DOMAIN cem.cache.artistCache.cache
            /\ CacheCalls("matchArtists") /\ mret'.query = q /\ ServedFromCache)
        => mret'.result = mret.result]_vars

\* a hit returned a list that a caller had changed
C35_ChangedListServed ==
    /\ mret.op = "matchArtists" /\ mret.invoked = 0 /\ mret.from # {}
    /\ mret.result # matchArtists(cem.config, mret.query, db.artists)

-----------------------------------------------------------------------------
(* The venue partition under queries and city filters whose keys meet *)

\* 'ab:y' without a filter has the key of 'ab' with the filter 'y'
VenueQueries == { <<"a", "b">>, <<"a", "b", ":", "y">>, <<"A", "b", " ">> }

\* no filter, and filters that are 'y' after lower-casing and trimming
VenueFilters == { << >>, <<"y">>, <<"Y">>, <<" ", "y">> }

InitVenue ==
    /\ \E config \in EdgeConfigs : cem = NewCachedEntityMatcher(config, cacheConfig)
    /\ db = [artists |-> Artists, venues |-> Venues, changed |-> FALSE]
    /\ mret = NoMatch
    /\ under = [artist |-> << >>, venue |-> << >>]
    /\ lru = NewLRUCache(1, DefaultTTL, 0, TRUE)
    /\ ret = NoCall
    /\ fresh = NotFresh
    /\ now = 0
    /\ nops = 0
    /\ NoTasks
    /\ NoResolver
    /\ NoTimers

NextVenue ==
    \/ \E q \in VenueQueries, city \in VenueFilters : MatchVenues(q, city)
    \/ Tick

SpecVenue == InitVenue /\ [][NextVenue]_vars

\* the pairs of the last call and of this one are the same after lower-casing
\* and trimming; no filter is the same as no filter only
SamePair ==
    /\ trim(toLowerCase(mret.query)) = trim(toLowerCase(mret'.query))
    /\ \/ mret.city = << >> /\ mret'.city = << >>
       \/ /\ mret.city # << >> /\ mret'.city # << >>
          /\ trim(toLowerCase(mret.city)) = trim(toLowerCase(mret'.city))

\* the last call stored its result, and this call is a hit on the same key
StoredThenHit ==
    /\ mret.op = "matchVenues" /\ mret.invoked = 1
    /\ CacheCalls("matchVenues") /\ ServedFromCache
    /\ generateVenueCacheKey(mret.query, cem.config, mret.city)
            = generateVenueCacheKey(mret'.query, cem.config, mret'.city)

\* this call returns what matchVenues computes for its pair
AsComputedForPair ==
    mret'.result = matchVenues(cem.config, mret'.query, db.venues, mret'.city)

\* C37: a result stored for a (query, cityFilter) pair is never returned by a
\* lookup with a different pair under the same config, the components compared
\* after lower-casing and trimming; and two pairs that share a cache key produce
\* the same matchVenues result on the same venue list
C37_VenueKeySeparatesPairs ==
    [][StoredThenHit => (SamePair /\ AsComputedForPair)]_vars

\* the first half fails for a query that holds ':'
C37_PairsKeptApart == [][StoredThenHit => SamePair]_vars

\* the second half fails for a filter with white space around it: the key is
\* made of the trimmed filter, the venues are filtered by the untrimmed one
C37_SameKeySameResult ==
    [][(StoredThenHit /\ SamePair) => AsComputedForPair]_vars

\* what holds: both halves, for queries without ':' and filters without white
\* space around them
C37_ForPlainPairs ==
    [][( /\ StoredThenHit
         /\ ~ includes(mret.query, <<":">>) /\ ~ includes(mret'.query, <<":">>)
         /\ trim(mret.city) = mret.city /\ trim(mret'.city) = mret'.city )
        => (SamePair /\ AsComputedForPair)]_vars

-----------------------------------------------------------------------------
(* Calls of the cached matcher with an empty candidate list *)

\* the step writes no entry to partition c: every entry of c after the step was
\* there before it, with its value and its expiry
NothingWritten(before, after) ==
    \A key \in DOMAIN after.cache :
        /\ key \in DOMAIN before.cache
        /\ after.cache[key].value = before.cache[key].value
        /\ after.cache[key].expiresAt = before.cache[key].expiresAt

\* the step completes a call that takes the artist list, and one that takes the
\* venue list
TakesArtists ==
    \E op \in {"matchArtists", "findBestArtist", "batchMatch"} : CacheCalls(op)

TakesVenues ==
    \E op \in {"matchVenues", "findBestVenue", "batchMatch"} : CacheCalls(op)

\* C38: a call made with an empty candidate list (matchArtists(q, []),
\* matchVenues(q, []), batchMatch with the artists or venues empty or left out)
\* never writes an entry to the cache for that entity type
C38_EmptyListWritesNothing ==
    [][ /\ (db.artists = << >> /\ TakesArtists) =>
                NothingWritten(cem.cache.artistCache, cem'.cache.artistCache)
        /\ (db.venues = << >> /\ TakesVenues) =>
                NothingWritten(cem.cache.venueCache, cem'.cache.venueCache) ]_vars

\* what holds: the calls other than batchMatch write nothing for an empty list
C38_ButBatchMatch ==
    [][ /\ (db.artists = << >> /\ TakesArtists /\ ~ CacheCalls("batchMatch")) =>
                NothingWritten(cem.cache.artistCache, cem'.cache.artistCache)
        /\ (db.venues = << >> /\ TakesVenues /\ ~ CacheCalls("batchMatch")) =>
                NothingWritten(cem.cache.venueCache, cem'.cache.venueCache) ]_vars

\* a later matchArtists with the artists of the caller was answered from the
\* cache with the empty list, where the matcher computes matches
C38_EmptyListServed ==
    /\ mret.op = "matchArtists" /\ db.artists # << >>
    /\ mret.invoked = 0 /\ mret.from # {}
    /\ mret.result = << >>
    /\ matchArtists(cem.config, mret.query, db.artists) # << >>
====
